---- MODULE Spec2Model ----
(***************************************************************************)
(* Krems Obsidian Publisher plugin (src/main.ts).                          *)
(*                                                                         *)
(* The plugin object holds the shared preview state (isKremsLocallyRunning,*)
(* localKremsProcess) and the settings.  Every click on the ribbon icon    *)
(* builds a NEW ActionModal whose buttons and click handlers are private   *)
(* to that modal; an async handler of a closed modal keeps running and     *)
(* keeps writing the shared plugin state.  One action of the model is one  *)
(* turn of the event loop: a click handler up to its first real await, the *)
(* continuation after an await, or one child-process notification.         *)
(***************************************************************************)
EXTENDS Integers, Sequences, FiniteSets, TLC

\* ---------------------------------------------------------------- bounds
\* Initialize runs, or Publish runs, started by clicks that passed validation
MaxOps ==
    2

\* The same where both workflows are in play
MaxMixedOps ==
    1

\* ActionModals constructed (each click on the ribbon icon makes a new one)
MaxModals ==
    2

\* Browse Locally requests accepted; request p is the one that may spawn process p
MaxProcs ==
    2

\* `krems --clean` commands in flight at once
MaxCleans ==
    1

Modals ==
    1..MaxModals

Procs ==
    1..MaxProcs

\* null of `localKremsProcess: ChildProcess | null`, and "no modal on screen"
Null ==
    0

VARIABLES
    isKremsLocallyRunning,  \* plugin.isKremsLocallyRunning
    localKremsProcess,      \* plugin.localKremsProcess: Null or a process id
    procState,              \* per start request: where its handler is, then the state of the process it spawned
    procSignalled,          \* kill() was called on the live process
    procOwner,              \* the modal whose handler made the request (closure of its listeners)
    startedWhile,           \* what the preview was when the request was made
    nStarts,                \* start requests accepted so far
    nModals,                \* ActionModals constructed so far
    openModal,              \* the modal on screen, or Null
    browseDisabled,         \* browseLocallyButton.disabled of each modal
    stopDisabled,           \* stopKremsButton.disabled of each modal
    cleansInFlight,         \* `krems --clean` commands started and not yet finished
    cleanLog,               \* what the preview looked like when each --clean was started
    unloaded,               \* onunload has run
    liveAtUnload,           \* the subprocesses that were alive when onunload ran
    unhandledRejection,     \* a handler's promise rejected with nobody catching it
    settings,               \* plugin.settings
    binaryPresent,          \* the krems binary file exists at binaryPath
    platform,               \* process.platform
    binaryCheck,            \* per start request: what `adapter.exists(binaryPath)` answered
    procPort,               \* portToUse of each start request
    procNotice,             \* the last setBrowseFeedback call of each start request's handler and listeners
    runsLeft,               \* Initialize and Publish runs the behaviour may still start
    lastEvent,              \* the button whose click handler started in the last turn, "-" for any other turn
    pushDisabled,           \* pushButton.disabled (and commitMessageInput.disabled) of each modal
    pushPc,                 \* the command each modal's publish handler is awaiting
    pushCfg,                \* the settings the handler destructured at its click
    pushBranch,             \* currentBranch of the handler
    pushRun,                \* the commands the handler's current run has invoked, in order
    pushErrs,               \* the steps of the run whose command exec reported as failed
    pushCommit,             \* how the run's commit command ended
    pushResult,             \* how the run ended
    nPublishes,             \* publish runs started so far
    execLog,                \* the command lines the last publish turn handed to child_process.exec
    consoleLog,             \* the texts the last publish turn wrote with console.error / console.warn
    feedbackLog,            \* the texts the last publish turn showed through setPushFeedback
    initDisabled,           \* initButton.disabled of each modal
    initOpenCheck,          \* the directory check onOpen started for the modal is pending
    initPc,                 \* per Initialize run: what its handler is awaiting
    initOwner,              \* the modal whose button started the run
    initCfg,                \* the settings the handler destructured at its click
    initRun,                \* the commands the run has invoked, in order
    cloneInto,              \* the target as it was when the run's pending clone command was started
    initResult,             \* how the run ended
    initFeedback,           \* what the last Initialize turn showed through setInitFeedback or logged
    nInits,                 \* Initialize runs started so far
    targetDir,              \* the local markdown directory on disk
    readmePresent,          \* README.md exists in it
    wipeCfg,                \* Clean and Clone variant: localMarkdownPath and githubRepoUrl of plugin.settings
    wipeDisabled,           \* cleanCloneButton.disabled
    wipePc,                 \* what the Clean and Clone handler is awaiting
    wipeConfirmed,          \* what confirm() answered the handler's last click
    wipeFound,              \* what `adapter.exists(localMarkdownPath)` answered the run
    wipeRun,                \* the commands the run has handed to execShellCommand, in order
    wipeResult              \* how the last click ended

previewVars ==
    <<isKremsLocallyRunning, localKremsProcess, procState, procSignalled, procOwner,
      startedWhile, nStarts, browseDisabled, stopDisabled,
      cleansInFlight, cleanLog, unloaded, liveAtUnload, unhandledRejection,
      binaryPresent, platform, binaryCheck, procPort, procNotice>>

publishVars ==
    <<pushDisabled, pushPc, pushCfg, pushBranch, pushRun, pushErrs, pushCommit, pushResult,
      nPublishes, execLog, consoleLog, feedbackLog>>

initVars ==
    <<initDisabled, initOpenCheck, initPc, initOwner, initCfg, initRun,
      cloneInto, initResult, initFeedback, nInits, targetDir, readmePresent>>

modalVars ==
    <<nModals, openModal>>

wipeVars ==
    <<wipeCfg, wipeDisabled, wipePc, wipeConfirmed, wipeFound, wipeRun, wipeResult>>

vars ==
    <<previewVars, publishVars, initVars, modalVars, wipeVars, settings, runsLeft, lastEvent>>

\* ------------------------------------------------------- binary provisioner
Platforms ==
    {"win32", "darwin", "linux", "freebsd"}

\* A provisioner that takes every other platform for Linux
getKremsBinaryNameOrLinux(plat) ==
    CASE plat = "win32"  -> "krems-windows-amd64.exe"
      [] plat = "darwin" -> "krems-darwin-amd64"
      [] OTHER           -> "krems-linux-amd64"

getKremsBinaryName(plat) ==
    CASE plat = "win32"  -> "krems-windows-amd64.exe"
      [] plat = "darwin" -> "krems-darwin-amd64"
      [] plat = "linux"  -> "krems-linux-amd64"
      [] OTHER           -> ""

getKremsBinaryDir ==
    "bin/"

binaryPathOf(plat) ==
    getKremsBinaryDir \o getKremsBinaryName(plat)

\* ------------------------------------------------------------ button state
\* updateBrowseButtonsState: the pair of disabled flags it leaves behind.
updateBrowseButtonsState(running, localMarkdownPath) ==
    IF localMarkdownPath = ""
    THEN [browse |-> TRUE, stop |-> TRUE]
    ELSE IF running
         THEN [browse |-> TRUE, stop |-> FALSE]
         ELSE [browse |-> FALSE, stop |-> TRUE]

SetButtons(m, running) ==
    LET b == updateBrowseButtonsState(running, settings.localMarkdownPath)
    IN  /\ browseDisabled' = [browseDisabled EXCEPT ![m] = b.browse]
        /\ stopDisabled' = [stopDisabled EXCEPT ![m] = b.stop]

DEFAULT_KREMS_SETTINGS ==
    [githubRepoUrl |-> <<>>, localMarkdownPath |-> "", gitPassword |-> "",
     localKremsBinaryPath |-> "", localRunPort |-> "8080"]

\* ------------------------------------------------------------------ texts
\* A text is a sequence of pieces; a piece is a literal of the source or one
\* interpolated value.  A value occurs in a text when it is one of its pieces.
Includes(text, piece) ==
    \E i \in 1..Len(text) : text[i] = piece

\* A URL is <<scheme, rest>>: 'https://' + the rest, or 'git@' + the rest.
startsWith(url, prefix) ==
    Len(url) > 0 /\ url[1] = prefix

HTTPS ==
    "https://"

\* githubRepoUrl.substring('https://'.length)
urlWithoutProtocol(url) ==
    Tail(url)

\* ------------------------------------------------------- command runner
\* What child_process.exec reports to its callback.  `kind` tells a command
\* that ran and exited non-zero from one that could not be launched.
ExecOk(stdout, stderr) ==
    [error |-> FALSE, kind |-> "ok", stdout |-> stdout, stderr |-> stderr]

ExecFailed(kind, stdout, stderr) ==
    [error |-> TRUE, kind |-> kind, stdout |-> stdout, stderr |-> stderr]

\* error.message of exec's callback: Node builds it from the command line it
\* was given ("Command failed: <cmd>\n<stderr>"); a launch failure names only
\* the shell.
NodeExecMessage(command, r) ==
    IF r.kind = "exit"
    THEN <<"Command failed: ">> \o command \o <<"\n">> \o r.stderr
    ELSE <<"spawn /bin/sh ENOENT">>

\* execShellCommand, what it writes to the console for a result
execConsole(command, displayCmd, r) ==
    IF r.error
    THEN {<<"Command failed: ">> \o displayCmd \o <<"\nError: ">>
            \o NodeExecMessage(command, r)
            \o <<"\nStdout: ">> \o r.stdout \o <<"\nStderr: ">> \o r.stderr}
    ELSE IF r.stderr # <<>>
         THEN {<<"Command successful but stderr present: ">> \o displayCmd
                 \o <<"\nStderr: ">> \o r.stderr}
         ELSE {}

\* execShellCommand, the value it rejects with
execRejection(command, displayCmd, r) ==
    [message |-> <<"Command failed: ">> \o displayCmd \o <<". Error: ">>
                   \o NodeExecMessage(command, r),
     stdout |-> r.stdout, stderr |-> r.stderr]

\* A runner that rejects on stderr output instead of on exec's error
execRejectsOnStderr(r) ==
    r.stderr # <<>>

\* execShellCommand rejects exactly when exec reported an error
execRejects(r) ==
    r.error

\* --------------------------------------------------------------- settings
\* A validation that forgets the repository URL
MissingPathOnly(cfg) ==
    cfg.localMarkdownPath = ""

\* `!localMarkdownPath || !githubRepoUrl`: the validation of Initialize and
\* Publish, and the test that disables their buttons in onOpen.
MissingConfig(cfg) ==
    cfg.localMarkdownPath = "" \/ cfg.githubRepoUrl = <<>>

Urls ==
    {<<>>, <<HTTPS, "github.com/u/r">>, <<"git@", "github.com:u/r">>}

Paths ==
    {"", "MySite"}

\* gitPassword: unset, or a personal access token
Tokens ==
    {"", "ghp_SECRET"}

\* -------------------------------------------------------- preview: state
\* Positions of the Browse Locally handler (awaits inside ensureKremsBinary)
HandlerStates ==
    {"saving", "checking", "downloading", "requesting"}

\* The subprocess exists at the OS level
Alive(p) ==
    procState[p] = "alive"

\* spawn() returned a ChildProcess for request p
Spawned(p) ==
    procState[p] \in {"alive", "spawnFailed", "exited", "closed", "errored"}

\* The controller's state when a request is made.  Running: the flag is set
\* and the handle holds a live subprocess; Starting: a Browse Locally handler
\* is inside ensureKremsBinary; Ending: the flag is still set but the tracked
\* subprocess is gone and its notification has not been delivered yet.
ControllerState ==
    IF isKremsLocallyRunning /\ localKremsProcess # Null /\ procState[localKremsProcess] = "alive"
    THEN "Running"
    ELSE IF \E p \in Procs : procState[p] \in HandlerStates THEN "Starting"
    ELSE IF isKremsLocallyRunning THEN "Ending"
    ELSE "Stopped"

\* The feedback element before any setBrowseFeedback call
NoNotice ==
    [type |-> "-", text |-> <<>>]

PreviewInitial ==
    /\ isKremsLocallyRunning = FALSE
    /\ localKremsProcess = Null
    /\ procState = [p \in Procs |-> "none"]
    /\ procSignalled = [p \in Procs |-> FALSE]
    /\ procOwner = [p \in Procs |-> Null]
    /\ startedWhile = [p \in Procs |-> "-"]
    /\ nStarts = 0
    /\ browseDisabled = [m \in Modals |-> FALSE]
    /\ stopDisabled = [m \in Modals |-> FALSE]
    /\ cleansInFlight = 0
    /\ cleanLog = {}
    /\ unloaded = FALSE
    /\ liveAtUnload = {}
    /\ unhandledRejection = FALSE
    /\ binaryCheck = [p \in Procs |-> "-"]
    /\ procPort = [p \in Procs |-> "-"]
    /\ procNotice = [p \in Procs |-> NoNotice]

ModalInitial ==
    /\ nModals = 0
    /\ openModal = Null
    /\ lastEvent = "-"

\* --------------------------------------------------------- preview: modal
\* Ribbon icon callback: new ActionModal(...).open(); onOpen runs
\* updateBrowseButtonsState() once on the new modal's buttons.
OpenModal ==
    /\ ~unloaded
    /\ openModal = Null
    /\ nModals < MaxModals
    /\ nModals' = nModals + 1
    /\ openModal' = nModals + 1
    /\ SetButtons(nModals + 1, isKremsLocallyRunning)
    /\ pushDisabled' = [pushDisabled EXCEPT ![nModals + 1] = MissingConfig(settings)]
    /\ UNCHANGED <<pushPc, pushCfg, pushBranch, pushRun, pushErrs, pushCommit, pushResult,
                   nPublishes, execLog, consoleLog, feedbackLog>>
    /\ initDisabled' = [initDisabled EXCEPT ![nModals + 1] = MissingConfig(settings)]
    /\ initOpenCheck' = [initOpenCheck EXCEPT ![nModals + 1] = ~MissingConfig(settings)]
    /\ UNCHANGED <<initPc, initOwner, initCfg, initRun, cloneInto, initResult,
                   initFeedback, nInits, targetDir, readmePresent>>
    /\ lastEvent' = "-"
    /\ UNCHANGED wipeVars
    /\ UNCHANGED runsLeft
    /\ UNCHANGED <<isKremsLocallyRunning, localKremsProcess, procState, procSignalled,
                   procOwner, startedWhile, nStarts, cleansInFlight, cleanLog, unloaded,
                   liveAtUnload, unhandledRejection, settings, binaryPresent, platform,
                   binaryCheck, procPort, procNotice>>

\* onClose only empties the modal's content: handlers in flight keep running.
CloseModal ==
    /\ openModal # Null
    /\ openModal' = Null
    /\ UNCHANGED <<publishVars, initVars>>
    /\ lastEvent' = "-"
    /\ UNCHANGED wipeVars
    /\ UNCHANGED runsLeft
    /\ UNCHANGED <<isKremsLocallyRunning, localKremsProcess, procState, procSignalled,
                   procOwner, startedWhile, nStarts, nModals, browseDisabled, stopDisabled,
                   cleansInFlight, cleanLog, unloaded, liveAtUnload, unhandledRejection,
                   settings, binaryPresent, platform, binaryCheck, procPort, procNotice>>

\* ------------------------------------------------------ publish: commands
AddCommand ==
    <<"git add .">>

\* commitMessageInput left blank: 'latest site version'
CommitCommand ==
    <<"git commit -m \"", "latest site version", "\"">>

RevParseCommand ==
    <<"git rev-parse --abbrev-ref HEAD">>

\* A push step that looks at the token only, not at the URL's scheme
UseAuthenticatedUrlTokenOnly(cfg) ==
    cfg.gitPassword # ""

\* `gitPassword && githubRepoUrl.startsWith('https://')`
UseAuthenticatedUrl(cfg) ==
    cfg.gitPassword # "" /\ startsWith(cfg.githubRepoUrl, HTTPS)

\* `https://${gitPassword}@${urlWithoutProtocol}`
authenticatedUrl(cfg) ==
    <<HTTPS, cfg.gitPassword, "@">> \o urlWithoutProtocol(cfg.githubRepoUrl)

pushCommand(cfg, branch) ==
    IF UseAuthenticatedUrl(cfg)
    THEN <<"git push ">> \o authenticatedUrl(cfg) \o <<" ">> \o branch
    ELSE <<"git push">>

displayPushCommand(cfg, branch) ==
    IF UseAuthenticatedUrl(cfg)
    THEN <<"git push <authenticated_url> ">> \o branch
    ELSE <<"git push">>

\* A handler that looks for the phrase in stderr instead of stdout
IsNothingToCommitInStderr(rejection) ==
    rejection.stderr # <<>> /\ Includes(rejection.stderr, "nothing to commit")

\* `commitError.stdout && commitError.stdout.includes("nothing to commit")`
IsNothingToCommit(rejection) ==
    rejection.stdout # <<>> /\ Includes(rejection.stdout, "nothing to commit")

\* ----------------------------------------- publish: what the commands may do
NothingToCommitStdout ==
    <<"On branch main\n", "nothing to commit", ", working tree clean">>

AddResults ==
    {ExecOk(<<>>, <<>>),
     ExecOk(<<>>, <<"warning: LF will be replaced by CRLF">>),
     ExecFailed("exit", <<>>, <<"fatal: not a git repository">>),
     ExecFailed("launch", <<>>, <<>>)}

CommitResults ==
    {ExecOk(<<"[main 1a2b3c4] latest site version">>, <<>>),
     ExecFailed("exit", NothingToCommitStdout, <<>>),
     ExecFailed("exit", <<>>, <<"fatal: unable to auto-detect email address">>),
     ExecFailed("launch", <<>>, <<>>)}

RevParseResults ==
    {ExecOk(<<"main">>, <<>>),
     ExecOk(<<"dev">>, <<>>),
     ExecFailed("exit", <<>>, <<"fatal: ambiguous argument 'HEAD'">>)}

PushResults ==
    {ExecOk(<<>>, <<>>),
     ExecOk(<<>>, <<"Everything up-to-date">>),
     ExecFailed("exit", <<>>, <<"fatal: Authentication failed">>),
     ExecFailed("launch", <<>>, <<>>)}

\* A branch discovery that trusts the query's output whether it failed or not
currentBranchFromStdout(r) ==
    r.stdout

\* `let currentBranch = 'main'; try { ... currentBranch = cmdOutput.stdout }
\* catch { }`: the branch the push names once the query has settled with r
currentBranch(r) ==
    IF execRejects(r) THEN <<"main">> ELSE r.stdout

\* -------------------------------------------------------- publish: handler
PublishInitial ==
    /\ pushDisabled = [m \in Modals |-> FALSE]
    /\ pushPc = [m \in Modals |-> "idle"]
    /\ pushCfg = [m \in Modals |-> DEFAULT_KREMS_SETTINGS]
    /\ pushBranch = [m \in Modals |-> <<"main">>]
    /\ pushRun = [m \in Modals |-> <<>>]
    /\ pushErrs = [m \in Modals |-> {}]
    /\ pushCommit = [m \in Modals |-> "-"]
    /\ pushResult = [m \in Modals |-> "none"]
    /\ nPublishes = 0
    /\ execLog = {}
    /\ consoleLog = {}
    /\ feedbackLog = {}

\* setPushFeedback of modal m called with each text of `shown` in turn, the
\* last one with `type` (the earlier ones, overwritten in the same turn, are
\* 'status').
ShowPush(m, type, shown) ==
    feedbackLog' = {[modal |-> m, text |-> shown[i],
                     type |-> IF i = Len(shown) THEN type ELSE "status"] :
                    i \in 1..Len(shown)}

\* The `(warnings)` feedback a step shows when its command left stderr
StderrNote(label, r) ==
    IF r.stderr # <<>> THEN <<<<label>> \o r.stderr>> ELSE <<>>

\* catch (error) of the publish handler, then finally
PushCatch(m, rejection, logged) ==
    /\ consoleLog' = logged \cup {<<"Push error: ">> \o rejection.message}
    /\ ShowPush(m, "error",
                <<<<"Push failed: ">> \o rejection.message
                   \o (IF rejection.stderr # <<>>
                       THEN <<"\nStderr: ">> \o rejection.stderr ELSE <<>>)>>)
    /\ pushResult' = [pushResult EXCEPT ![m] = "error"]
    /\ pushPc' = [pushPc EXCEPT ![m] = "idle"]
    /\ pushDisabled' = [pushDisabled EXCEPT ![m] = FALSE]
    /\ execLog' = {}
    /\ pushCfg' = [pushCfg EXCEPT ![m] = DEFAULT_KREMS_SETTINGS]
    /\ pushBranch' = [pushBranch EXCEPT ![m] = <<"main">>]
    /\ UNCHANGED pushRun

\* execShellCommand(command, ...) called: the command goes to exec at once
Invoke(m, step, command) ==
    /\ execLog' = {command}
    /\ pushRun' = [pushRun EXCEPT ![m] = Append(@, step)]
    /\ pushPc' = [pushPc EXCEPT ![m] = step]

\* Click on Push to GitHub of the modal on screen, up to `await git add .`
PushClick(m) ==
    /\ openModal = m
    /\ ~pushDisabled[m]
    /\ MissingConfig(settings) \/ runsLeft > 0
    /\ lastEvent' = "pushClick"
    /\ UNCHANGED wipeVars
    /\ UNCHANGED <<previewVars, initVars, modalVars, settings>>
    /\ consoleLog' = {}
    /\ IF MissingConfig(settings)
       THEN /\ ShowPush(m, "error",
                   <<<<"Error: Local Markdown Directory and GitHub Repo URL must be set in plugin settings.">>>>)
            /\ execLog' = {}
            /\ UNCHANGED runsLeft
            /\ UNCHANGED <<pushDisabled, pushPc, pushCfg, pushBranch, pushRun, pushErrs,
                           pushCommit, pushResult, nPublishes>>
       ELSE /\ nPublishes' = nPublishes + 1
            /\ runsLeft' = runsLeft - 1
            /\ pushCfg' = [pushCfg EXCEPT ![m] = settings]
            /\ pushDisabled' = [pushDisabled EXCEPT ![m] = TRUE]
            /\ pushBranch' = [pushBranch EXCEPT ![m] = <<"main">>]
            /\ pushErrs' = [pushErrs EXCEPT ![m] = {}]
            /\ pushCommit' = [pushCommit EXCEPT ![m] = "-"]
            /\ pushResult' = [pushResult EXCEPT ![m] = "running"]
            /\ ShowPush(m, "status", <<<<"Preparing to push site...">>,
                                       <<"Adding files (git add .)...">>>>)
            /\ execLog' = {AddCommand}
            /\ pushRun' = [pushRun EXCEPT ![m] = <<"add">>]
            /\ pushPc' = [pushPc EXCEPT ![m] = "add"]

\* `git add .` settles
PushAddDone(m) ==
    /\ pushPc[m] = "add"
    /\ lastEvent' = "-"
    /\ UNCHANGED wipeVars
    /\ UNCHANGED runsLeft
    /\ UNCHANGED <<previewVars, initVars, modalVars, settings, pushCommit, nPublishes>>
    /\ \E r \in AddResults :
        LET logged == execConsole(AddCommand, AddCommand, r) IN
        /\ pushErrs' = [pushErrs EXCEPT ![m] = IF r.error THEN @ \cup {"add"} ELSE @]
        /\ IF execRejects(r)
           THEN PushCatch(m, execRejection(AddCommand, AddCommand, r), logged)
           ELSE
             /\ consoleLog' = logged
             /\ ShowPush(m, "status", StderrNote("Git add (warnings): ", r)
                   \o <<<<"Committing with message: \"", "latest site version", "\"...">>>>)
             /\ Invoke(m, "commit", CommitCommand)
             /\ UNCHANGED <<pushDisabled, pushCfg, pushBranch, pushResult>>

\* The push step up to its await: with a token and an https URL the branch is
\* queried first, otherwise plain `git push` is started.
StartPushStep(m, before) ==
    IF UseAuthenticatedUrl(pushCfg[m])
    THEN /\ ShowPush(m, "status", before \o <<<<"Pushing to remote repository...">>>>)
         /\ Invoke(m, "revparse", RevParseCommand)
    ELSE /\ ShowPush(m, "status", before \o
               <<<<"Pushing to remote repository...">>,
                 <<"Pushing to ">> \o pushCfg[m].githubRepoUrl
                    \o <<" (unauthenticated, ensure credential helper or SSH is set up)...">>>>)
         /\ Invoke(m, "push", pushCommand(pushCfg[m], pushBranch[m]))

\* `git commit` settles
PushCommitDone(m) ==
    /\ pushPc[m] = "commit"
    /\ lastEvent' = "-"
    /\ UNCHANGED wipeVars
    /\ UNCHANGED runsLeft
    /\ UNCHANGED <<previewVars, initVars, modalVars, settings, nPublishes>>
    /\ \E r \in CommitResults :
        LET logged == execConsole(CommitCommand, CommitCommand, r)
            rejection == execRejection(CommitCommand, CommitCommand, r)
        IN
        /\ pushCommit' = [pushCommit EXCEPT
                            ![m] = IF ~r.error THEN "ok"
                                   ELSE IF r.stdout = NothingToCommitStdout
                                        THEN "nothingToCommit" ELSE "failed"]
        /\ pushErrs' = [pushErrs EXCEPT ![m] = IF r.error THEN @ \cup {"commit"} ELSE @]
        /\ IF execRejects(r) /\ ~IsNothingToCommit(rejection)
           THEN PushCatch(m, rejection, logged)
           ELSE /\ consoleLog' = logged
                /\ StartPushStep(m,
                      IF execRejects(r)
                      THEN <<<<"No changes to commit. Proceeding to push...">>>>
                      ELSE StderrNote("Git commit (warnings): ", r))
                /\ UNCHANGED <<pushDisabled, pushCfg, pushBranch, pushResult>>

\* `git rev-parse --abbrev-ref HEAD` settles; a failure keeps 'main' and warns
PushRevParseDone(m) ==
    /\ pushPc[m] = "revparse"
    /\ lastEvent' = "-"
    /\ UNCHANGED wipeVars
    /\ UNCHANGED runsLeft
    /\ UNCHANGED <<previewVars, initVars, modalVars, settings, pushCfg, pushCommit, nPublishes,
                   pushDisabled, pushResult>>
    /\ \E r \in RevParseResults :
        LET logged == execConsole(RevParseCommand, RevParseCommand, r)
            rejection == execRejection(RevParseCommand, RevParseCommand, r)
            branch == currentBranch(r)
        IN
        /\ pushBranch' = [pushBranch EXCEPT ![m] = branch]
        /\ pushErrs' = [pushErrs EXCEPT ![m] = IF r.error THEN @ \cup {"revparse"} ELSE @]
        /\ consoleLog' = logged \cup
              (IF execRejects(r)
               THEN {<<"Could not determine current branch, defaulting to 'main'. Error: ">>
                       \o rejection.message}
               ELSE {})
        /\ ShowPush(m, "status",
              (IF execRejects(r)
               THEN <<<<"Warning: Could not determine current branch (using 'main'). Details: ">>
                        \o (IF rejection.stderr # <<>>
                            THEN rejection.stderr ELSE rejection.message)>>
               ELSE StderrNote("Git branch check (warnings): ", r))
              \o <<<<"Pushing to ">> \o pushCfg[m].githubRepoUrl \o <<" (authenticated)...">>>>)
        /\ Invoke(m, "push", pushCommand(pushCfg[m], branch))

\* `git push` settles: success feedback, or the catch block; then finally
PushPushDone(m) ==
    /\ pushPc[m] = "push"
    /\ lastEvent' = "-"
    /\ UNCHANGED wipeVars
    /\ UNCHANGED runsLeft
    /\ UNCHANGED <<previewVars, initVars, modalVars, settings, pushCommit, nPublishes>>
    /\ \E r \in PushResults :
        LET command == pushCommand(pushCfg[m], pushBranch[m])
            display == displayPushCommand(pushCfg[m], pushBranch[m])
            logged == execConsole(command, display, r)
        IN
        /\ pushErrs' = [pushErrs EXCEPT ![m] = IF r.error THEN @ \cup {"push"} ELSE @]
        /\ IF execRejects(r)
           THEN PushCatch(m, execRejection(command, display, r), logged)
           ELSE
             /\ consoleLog' = logged
             /\ ShowPush(m, "success",
                   IF r.stderr # <<>>
                   THEN <<<<"Push successful with warnings: ">> \o r.stderr>>
                   ELSE <<<<"Site pushed successfully!">>>>)
             /\ pushResult' = [pushResult EXCEPT ![m] = "success"]
             /\ pushPc' = [pushPc EXCEPT ![m] = "idle"]
             /\ pushDisabled' = [pushDisabled EXCEPT ![m] = FALSE]
             /\ execLog' = {}
             /\ pushCfg' = [pushCfg EXCEPT ![m] = DEFAULT_KREMS_SETTINGS]
             /\ pushBranch' = [pushBranch EXCEPT ![m] = <<"main">>]
             /\ UNCHANGED pushRun

\* The settings tab's onChange handlers: the field takes the typed value.
ChangeRepoUrl ==
    /\ \E u \in Urls : settings' = [settings EXCEPT !.githubRepoUrl = u]
    /\ settings' # settings
    /\ lastEvent' = "-"
    /\ UNCHANGED wipeVars
    /\ UNCHANGED runsLeft
    /\ UNCHANGED <<previewVars, publishVars, initVars, modalVars>>

ChangeLocalPath ==
    /\ \E d \in Paths : settings' = [settings EXCEPT !.localMarkdownPath = d]
    /\ settings' # settings
    /\ lastEvent' = "-"
    /\ UNCHANGED wipeVars
    /\ UNCHANGED runsLeft
    /\ UNCHANGED <<previewVars, publishVars, initVars, modalVars>>

ChangeToken ==
    /\ \E t \in Tokens : settings' = [settings EXCEPT !.gitPassword = t]
    /\ settings' # settings
    /\ lastEvent' = "-"
    /\ UNCHANGED wipeVars
    /\ UNCHANGED runsLeft
    /\ UNCHANGED <<previewVars, publishVars, initVars, modalVars>>

\* ------------------------------------------------------- initialize: disk
\* The target path on disk: absent, a file, or a folder with that many files
\* and sub-folders (adapter.list).
Absent ==
    [kind |-> "absent", files |-> 0, folders |-> 0]

PlainFile ==
    [kind |-> "file", files |-> 0, folders |-> 0]

Folder(files, folders) ==
    [kind |-> "folder", files |-> files, folders |-> folders]

\* What a finished `git clone` leaves: .git and the site's files
ClonedFolder ==
    Folder(1, 1)

DirStates ==
    {Absent, PlainFile} \cup {Folder(f, d) : f \in 0..1, d \in 0..1}

\* The directory before the plug-in has touched it
InitialDirStates ==
    DirStates \ {ClonedFolder}

\* adapter.exists(dirPath).  The adapter is taken to answer for the directory
\* the handler names (absoluteLocalPath); how the host resolves the path it is
\* given is not part of the sources.
exists(dir) ==
    dir.kind # "absent"

NonEmptyFolder(dir) ==
    dir.kind = "folder" /\ (dir.files > 0 \/ dir.folders > 0)

\* A check with `||` between the two length tests
checkIfDirIsEmptyEither(dir, adapterThrows) ==
    IF adapterThrows
    THEN FALSE
    ELSE IF exists(dir) /\ dir.kind = "folder"
         THEN dir.files = 0 \/ dir.folders = 0
         ELSE FALSE

\* checkIfDirIsEmpty: true only for an existing folder that lists no files and
\* no folders; false for a missing path, a non-folder, and when the adapter throws.
checkIfDirIsEmpty(dir, adapterThrows) ==
    IF adapterThrows
    THEN FALSE
    ELSE IF exists(dir) /\ dir.kind = "folder"
         THEN dir.files = 0 /\ dir.folders = 0
         ELSE FALSE

\* `git clone <url> <path>` refuses a path that exists and is not an empty folder
GitCloneCanSucceed(dir) ==
    dir = Absent \/ dir = Folder(0, 0)

\* ---------------------------------------------------- initialize: handler
Inits ==
    1..MaxOps

\* No check made, no clone started
Unseen ==
    [kind |-> "-", files |-> 0, folders |-> 0]

\* `const { localMarkdownPath, githubRepoUrl } = this.plugin.settings`
InitConfig(cfg) ==
    [githubRepoUrl |-> cfg.githubRepoUrl, localMarkdownPath |-> cfg.localMarkdownPath]

InitInitial ==
    /\ initDisabled = [m \in Modals |-> FALSE]
    /\ initOpenCheck = [m \in Modals |-> FALSE]
    /\ initPc = [i \in Inits |-> "none"]
    /\ initOwner = [i \in Inits |-> Null]
    /\ initCfg = [i \in Inits |-> InitConfig(DEFAULT_KREMS_SETTINGS)]
    /\ initRun = [i \in Inits |-> <<>>]
    /\ cloneInto = [i \in Inits |-> Unseen]
    /\ initResult = [i \in Inits |-> "none"]
    /\ initFeedback = {}
    /\ nInits = 0
    /\ readmePresent = FALSE

\* setInitFeedback(message, type) of modal m
ShowInit(m, type, text) ==
    [modal |-> m, type |-> type, text |-> text]

\* console.warn("Error checking if dir is empty:", e) of checkIfDirIsEmpty
WarnDirCheck(adapterThrows) ==
    IF adapterThrows
    THEN {[modal |-> Null, type |-> "console.warn", text |-> "Error checking if dir is empty:"]}
    ELSE {}

\* The promise chain onOpen started settles: the button is disabled when the
\* path exists and is not an empty folder, enabled otherwise.
InitOpenCheckDone(m) ==
    /\ initOpenCheck[m]
    /\ initOpenCheck' = [initOpenCheck EXCEPT ![m] = FALSE]
    /\ \E adapterThrows \in BOOLEAN :
        /\ initFeedback' = WarnDirCheck(adapterThrows)
        /\ initDisabled' = [initDisabled EXCEPT
               ![m] = exists(targetDir) /\ ~checkIfDirIsEmpty(targetDir, adapterThrows)]
    /\ lastEvent' = "-"
    /\ UNCHANGED wipeVars
    /\ UNCHANGED runsLeft
    /\ UNCHANGED <<previewVars, publishVars, modalVars, settings, initPc, initOwner,
                   initCfg, initRun, cloneInto, initResult, nInits, targetDir,
                   readmePresent>>

\* Click on Initialize Directory of the modal on screen, up to
\* `await adapter.exists(absoluteLocalPath)`.  The button is not disabled yet.
InitClick(m) ==
    /\ openModal = m
    /\ ~initDisabled[m]
    /\ MissingConfig(settings) \/ runsLeft > 0
    /\ lastEvent' = "initClick"
    /\ UNCHANGED wipeVars
    /\ UNCHANGED <<previewVars, publishVars, modalVars, settings, initDisabled,
                   initOpenCheck, initRun, cloneInto, initResult, targetDir,
                   readmePresent>>
    /\ IF MissingConfig(settings)
       THEN /\ initFeedback' = {ShowInit(m, "error", "Error: Local Markdown Directory and GitHub Repo URL must be set in plugin settings.")}
            /\ UNCHANGED <<initPc, initOwner, initCfg, nInits, runsLeft>>
       ELSE /\ nInits' = nInits + 1
            /\ runsLeft' = runsLeft - 1
            /\ initPc' = [initPc EXCEPT ![nInits + 1] = "exists"]
            /\ initOwner' = [initOwner EXCEPT ![nInits + 1] = m]
            /\ initCfg' = [initCfg EXCEPT ![nInits + 1] = InitConfig(settings)]
            /\ initFeedback' = {}

\* `initButton.disabled = true`, feedback, and the clone command handed to exec
StartClone(i, logged) ==
    /\ initDisabled' = [initDisabled EXCEPT ![initOwner[i]] = TRUE]
    /\ initFeedback' = logged \cup {ShowInit(initOwner[i], "status", "Cloning krems-example repository...")}
    /\ initRun' = [initRun EXCEPT ![i] = Append(@, "clone")]
    /\ cloneInto' = [cloneInto EXCEPT ![i] = targetDir]
    /\ initPc' = [initPc EXCEPT ![i] = "clone"]
    /\ UNCHANGED <<initResult, initOwner, initCfg>>

\* The handler returns: its locals are gone
EndRun(i, result) ==
    /\ initPc' = [initPc EXCEPT ![i] = "done"]
    /\ initResult' = [initResult EXCEPT ![i] = result]
    /\ initOwner' = [initOwner EXCEPT ![i] = Null]
    /\ initCfg' = [initCfg EXCEPT ![i] = InitConfig(DEFAULT_KREMS_SETTINGS)]
    /\ cloneInto' = [cloneInto EXCEPT ![i] = Unseen]

\* The re-check found the directory not empty: error feedback, return
RefuseNonEmpty(i, logged) ==
    /\ initFeedback' = logged \cup {ShowInit(initOwner[i], "error", "Error: Directory is not empty. Please choose an empty or new directory.")}
    /\ EndRun(i, "refused")
    /\ UNCHANGED <<initDisabled, initRun>>

\* `await adapter.exists(absoluteLocalPath)` settles
InitExistsDone(i) ==
    /\ initPc[i] = "exists"
    /\ lastEvent' = "-"
    /\ UNCHANGED wipeVars
    /\ UNCHANGED runsLeft
    /\ IF exists(targetDir)
       THEN /\ initPc' = [initPc EXCEPT ![i] = "isEmpty"]
            /\ initFeedback' = {}
            /\ UNCHANGED <<initDisabled, initRun, cloneInto, initResult, initOwner, initCfg>>
       ELSE StartClone(i, {})
    /\ UNCHANGED <<previewVars, publishVars, modalVars, settings, initOpenCheck,
                   nInits, targetDir, readmePresent>>

\* `await this.checkIfDirIsEmpty(absoluteLocalPath)` settles
InitIsEmptyDone(i) ==
    /\ initPc[i] = "isEmpty"
    /\ lastEvent' = "-"
    /\ UNCHANGED wipeVars
    /\ UNCHANGED runsLeft
    /\ \E adapterThrows \in BOOLEAN :
        IF checkIfDirIsEmpty(targetDir, adapterThrows)
        THEN StartClone(i, WarnDirCheck(adapterThrows))
        ELSE RefuseNonEmpty(i, WarnDirCheck(adapterThrows))
    /\ UNCHANGED <<previewVars, publishVars, modalVars, settings, initOpenCheck,
                   nInits, targetDir, readmePresent>>

\* The success feedback, then finally
InitSucceed(i, text) ==
    /\ initFeedback' = {ShowInit(initOwner[i], "success", text)}
    /\ EndRun(i, "success")
    /\ initDisabled' = [initDisabled EXCEPT ![initOwner[i]] = FALSE]
    /\ UNCHANGED initRun

\* A catch block that swallows the error and reports success
InitCatchReportsSuccess(i) ==
    InitSucceed(i, "Directory initialized successfully!")

\* A catch block with no finally after it: the button stays disabled
InitCatchLeavesDisabled(i) ==
    /\ initFeedback' = {[modal |-> Null, type |-> "console.error", text |-> "Initialization error:"],
                        ShowInit(initOwner[i], "error", "Initialization failed")}
    /\ EndRun(i, "failed")
    /\ UNCHANGED <<initDisabled, initRun>>

\* catch (error) of the Initialize handler, then finally
InitCatch(i) ==
    /\ initFeedback' = {[modal |-> Null, type |-> "console.error", text |-> "Initialization error:"],
                        ShowInit(initOwner[i], "error", "Initialization failed")}
    /\ EndRun(i, "failed")
    /\ initDisabled' = [initDisabled EXCEPT ![initOwner[i]] = FALSE]
    /\ UNCHANGED initRun

\* `git clone` settles; on success `git remote set-url` is started
InitCloneDone(i) ==
    /\ initPc[i] = "clone"
    /\ lastEvent' = "-"
    /\ UNCHANGED wipeVars
    /\ UNCHANGED runsLeft
    /\ \E ok \in BOOLEAN :
        /\ ok => GitCloneCanSucceed(targetDir)
        /\ IF ok
           THEN /\ targetDir' = ClonedFolder
                /\ readmePresent' \in BOOLEAN
                /\ initFeedback' = {ShowInit(initOwner[i], "status", "Repository cloned. Setting remote URL...")}
                /\ initRun' = [initRun EXCEPT ![i] = Append(@, "set-url")]
                /\ initPc' = [initPc EXCEPT ![i] = "setUrl"]
                /\ UNCHANGED <<initDisabled, initResult, initOwner, initCfg, cloneInto>>
           ELSE /\ InitCatch(i)
                /\ UNCHANGED <<targetDir, readmePresent>>
    /\ UNCHANGED <<previewVars, publishVars, modalVars, settings, initOpenCheck, nInits>>

\* `git remote set-url` settles; on success README.md is looked for
InitSetUrlDone(i) ==
    /\ initPc[i] = "setUrl"
    /\ lastEvent' = "-"
    /\ UNCHANGED wipeVars
    /\ UNCHANGED runsLeft
    /\ \E ok \in BOOLEAN :
        IF ok
        THEN /\ initFeedback' = {ShowInit(initOwner[i], "status", "Remote URL set. Cleaning up README.md...")}
             /\ initPc' = [initPc EXCEPT ![i] = "readme"]
             /\ UNCHANGED <<initDisabled, initRun, initResult, initOwner, initCfg, cloneInto>>
        ELSE InitCatch(i)
    /\ UNCHANGED <<previewVars, publishVars, modalVars, settings, initOpenCheck,
                   nInits, targetDir, readmePresent>>

\* `await adapter.exists(readmePath)` settles
InitReadmeDone(i) ==
    /\ initPc[i] = "readme"
    /\ lastEvent' = "-"
    /\ UNCHANGED wipeVars
    /\ UNCHANGED runsLeft
    /\ IF readmePresent
       THEN /\ initPc' = [initPc EXCEPT ![i] = "remove"]
            /\ initFeedback' = {}
            /\ UNCHANGED <<initDisabled, initRun, initResult, initOwner, initCfg, cloneInto>>
       ELSE InitSucceed(i, "Directory initialized successfully! (README.md not found to remove).")
    /\ UNCHANGED <<previewVars, publishVars, modalVars, settings, initOpenCheck,
                   nInits, targetDir, readmePresent>>

\* `await adapter.remove(readmePath)` settles; it rejects when the file is gone
InitRemoveDone(i) ==
    /\ initPc[i] = "remove"
    /\ lastEvent' = "-"
    /\ UNCHANGED wipeVars
    /\ UNCHANGED runsLeft
    /\ \E ok \in BOOLEAN :
        /\ ok => readmePresent
        /\ IF ok
           THEN /\ readmePresent' = FALSE
                /\ InitSucceed(i, "Directory initialized successfully! README.md removed.")
           ELSE /\ InitCatch(i)
                /\ UNCHANGED readmePresent
    /\ UNCHANGED <<previewVars, publishVars, modalVars, settings, initOpenCheck,
                   nInits, targetDir>>

\* ------------------------------------------------- preview: Browse Locally
\* One call of setBrowseFeedback(message, type)
Notice(type, text) ==
    [type |-> type, text |-> text]

\* `procNotice' = Shows(p, n)`: the handler or a listener of request p calls
\* setBrowseFeedback, n being its last call of the turn
Shows(p, n) ==
    [procNotice EXCEPT ![p] = n]

\* What the port field of the settings tab may hold: its onChange stores the
\* trimmed text whatever it is.
Ports ==
    {"", "8080", "3000", "80", "70000", "abc"}

\* parseInt gives NaN for a text that does not begin with a digit
NaN ==
    -1

\* parseInt(portVal, 10)
parseInt(text) ==
    CASE text = "8080"  -> 8080
      [] text = "3000"  -> 3000
      [] text = "80"    -> 80
      [] text = "70000" -> 70000
      [] OTHER          -> NaN

\* The focusout listener's verdict, shown beside the field: 'Port is valid.'
PortIsValid(text) ==
    LET portNum == parseInt(text) IN
    text # "" /\ ~(portNum = NaN \/ portNum < 1024 \/ portNum > 65535)

\* `localRunPort || DEFAULT_KREMS_SETTINGS.localRunPort || "8080"`
portToUse(localRunPort) ==
    IF localRunPort # "" THEN localRunPort
    ELSE IF DEFAULT_KREMS_SETTINGS.localRunPort # "" THEN DEFAULT_KREMS_SETTINGS.localRunPort
    ELSE "8080"

\* ensureKremsBinary returned null: `updateBrowseButtonsState(); return;`
\* `shown` is the last thing ensureKremsBinary passed to setBrowseFeedback.
EnsureReturnedNull(p, m, shown) ==
    /\ procState' = [procState EXCEPT ![p] = "noSpawn"]
    /\ SetButtons(m, isKremsLocallyRunning)
    /\ procNotice' = Shows(p, shown)
    /\ UNCHANGED <<isKremsLocallyRunning, localKremsProcess>>

\* The try { spawn(...) } catch block, run in the same turn in which
\* ensureKremsBinary returned a path.  spawn either throws (caught), or returns
\* a ChildProcess that runs, or returns one whose launch fails ('error' later).
SpawnKrems(p) ==
    \E outcome \in {"ok", "asyncFail", "throws"} :
        IF outcome = "throws"
        THEN /\ procState' = [procState EXCEPT ![p] = "noSpawn"]
             /\ isKremsLocallyRunning' = FALSE
             /\ localKremsProcess' = Null
             /\ SetButtons(procOwner[p], FALSE)
             /\ procNotice' = Shows(p, Notice("error", <<"Error starting Krems: ">>))
        ELSE /\ procState' = [procState EXCEPT
                                 ![p] = IF outcome = "ok" THEN "alive" ELSE "spawnFailed"]
             /\ localKremsProcess' = p
             /\ isKremsLocallyRunning' = TRUE
             /\ SetButtons(procOwner[p], TRUE)
             /\ procNotice' = Shows(p, Notice("log", <<"Krems server starting on port ",
                                                        procPort[p], ". Output:\n">>))

\* Click on Browse Locally of the modal on screen, up to the first await:
\* validation, `disabled = true`, and ensureKremsBinary up to
\* `await this.saveSettings()`.  The handler reads neither the running flag
\* nor the handle: the button's disabled state is the only gate.  The port is
\* the localRunPort the handler destructured at the click.
BrowseClick(m) ==
    /\ openModal = m
    /\ ~browseDisabled[m]
    /\ nStarts < MaxProcs
    /\ UNCHANGED <<publishVars, initVars>>
    /\ lastEvent' = "browseClick"
    /\ UNCHANGED wipeVars
    /\ UNCHANGED runsLeft
    /\ IF settings.localMarkdownPath = ""
       THEN UNCHANGED <<previewVars, modalVars, settings>>
       ELSE LET p == nStarts + 1 IN
            /\ nStarts' = p
            /\ procOwner' = [procOwner EXCEPT ![p] = m]
            /\ startedWhile' = [startedWhile EXCEPT ![p] = ControllerState]
            /\ IF getKremsBinaryName(platform) = ""
               THEN /\ EnsureReturnedNull(p, m,
                          Notice("error",
                                 <<"Unsupported operating system for Krems download.">>))
                    /\ UNCHANGED <<settings, procPort, binaryCheck>>
               ELSE /\ procState' = [procState EXCEPT ![p] = "saving"]
                    /\ browseDisabled' = [browseDisabled EXCEPT ![m] = TRUE]
                    /\ settings' = [settings EXCEPT
                                      !.localKremsBinaryPath = binaryPathOf(platform)]
                    /\ procPort' = [procPort EXCEPT ![p] = portToUse(settings.localRunPort)]
                    /\ procNotice' = Shows(p, Notice("status", <<"Preparing local preview...">>))
                    /\ UNCHANGED <<stopDisabled, isKremsLocallyRunning, localKremsProcess>>
            /\ UNCHANGED <<procSignalled, nModals, openModal, cleansInFlight, cleanLog,
                           unloaded, liveAtUnload, unhandledRejection, binaryPresent,
                           platform, binaryCheck>>

\* `await this.saveSettings()` inside ensureKremsBinary settles.  A rejection
\* leaves ensureKremsBinary, and the click handler that awaits it outside any
\* try block, rejected: nothing is shown and the button stays disabled.
SaveSettingsDone(p) ==
    /\ procState[p] = "saving"
    /\ UNCHANGED <<publishVars, initVars>>
    /\ lastEvent' = "-"
    /\ UNCHANGED wipeVars
    /\ UNCHANGED runsLeft
    /\ \E ok \in BOOLEAN :
        IF ok
        THEN /\ procState' = [procState EXCEPT ![p] = "checking"]
             /\ UNCHANGED unhandledRejection
        ELSE /\ procState' = [procState EXCEPT ![p] = "noSpawn"]
             /\ unhandledRejection' = TRUE
    /\ UNCHANGED <<isKremsLocallyRunning, localKremsProcess, procSignalled, procOwner,
                   startedWhile, nStarts, nModals, openModal, browseDisabled, stopDisabled,
                   cleansInFlight, cleanLog, unloaded, liveAtUnload, settings,
                   binaryPresent, platform, binaryCheck, procPort, procNotice>>

\* A provisioner that downloads whatever the existence check answered
AlwaysDownload(answer) ==
    TRUE

\* ensureKremsBinary goes on to the download block unless the check answered
\* true: `if (await adapter.exists(binaryPath)) {... return ...}`, and the
\* catch around it falls through.
NeedsDownload(answer) ==
    answer # "found"

\* `await adapter.exists(binaryPath)` settles: found (chmod on non-Windows,
\* which may throw), not found, or the check itself throws (download next).
BinaryCheckDone(p) ==
    /\ procState[p] = "checking"
    /\ UNCHANGED <<publishVars, initVars>>
    /\ lastEvent' = "-"
    /\ UNCHANGED wipeVars
    /\ UNCHANGED runsLeft
    /\ \E checkThrows \in BOOLEAN, chmodOk \in BOOLEAN :
        LET answer == IF checkThrows THEN "threw"
                      ELSE IF binaryPresent THEN "found" ELSE "missing"
        IN
        /\ binaryCheck' = [binaryCheck EXCEPT ![p] = answer]
        /\ IF ~NeedsDownload(answer)
           THEN IF platform # "win32" /\ ~chmodOk
                THEN EnsureReturnedNull(p, procOwner[p],
                        Notice("error", <<"Found Krems binary, but failed to set executable permission. Please check manually.">>))
                ELSE SpawnKrems(p)
           ELSE
             /\ procState' = [procState EXCEPT ![p] = "downloading"]
             /\ procNotice' = Shows(p, Notice("status",
                                              <<"Downloading Krems for ", platform, "...">>))
             /\ UNCHANGED <<isKremsLocallyRunning, localKremsProcess, browseDisabled,
                            stopDisabled>>
    /\ UNCHANGED <<procSignalled, procOwner, startedWhile, nStarts, nModals, openModal,
                   cleansInFlight, cleanLog, unloaded, liveAtUnload, unhandledRejection,
                   settings, binaryPresent, platform, procPort>>

\* The catch of the download block: feedback, `return null`
DownloadFailed(p) ==
    EnsureReturnedNull(p, procOwner[p], Notice("error", <<"Failed to download Krems: ">>))

\* `await adapter.exists(binaryDir)` (and mkdir) settle.  On success the
\* handler calls requestUrl for the release asset, whatever has become of the
\* binary file since its check.
BinaryDirReady(p) ==
    /\ procState[p] = "downloading"
    /\ UNCHANGED <<publishVars, initVars>>
    /\ lastEvent' = "-"
    /\ UNCHANGED wipeVars
    /\ UNCHANGED runsLeft
    /\ \E ok \in BOOLEAN :
        IF ok
        THEN /\ procState' = [procState EXCEPT ![p] = "requesting"]
             /\ UNCHANGED <<isKremsLocallyRunning, localKremsProcess, browseDisabled,
                            stopDisabled, procNotice>>
        ELSE DownloadFailed(p)
    /\ UNCHANGED <<procSignalled, procOwner, startedWhile, nStarts, nModals, openModal,
                   cleansInFlight, cleanLog, unloaded, liveAtUnload, unhandledRejection,
                   settings, binaryPresent, platform, binaryCheck, procPort>>

\* The rest of the download block (requestUrl, writeBinary, chmod) settles:
\* a failure before the file is written, the file written but chmod throwing,
\* or success; every failure is caught there and makes ensureKremsBinary
\* return null.
DownloadDone(p) ==
    /\ procState[p] = "requesting"
    /\ UNCHANGED <<publishVars, initVars>>
    /\ lastEvent' = "-"
    /\ UNCHANGED wipeVars
    /\ UNCHANGED runsLeft
    /\ \E outcome \in {"failed", "chmodThrows", "ok"} :
        /\ outcome = "chmodThrows" => platform # "win32"
        /\ binaryPresent' = (binaryPresent \/ outcome # "failed")
        /\ IF outcome = "ok" THEN SpawnKrems(p) ELSE DownloadFailed(p)
    /\ UNCHANGED <<procSignalled, procOwner, startedWhile, nStarts, nModals, openModal,
                   cleansInFlight, cleanLog, unloaded, liveAtUnload, unhandledRejection,
                   settings, platform, binaryCheck, procPort>>

\* ------------------------------------------- preview: process notifications
\* `code` of the 'close' event when the process was ended by a signal (null)
NoCode ==
    -1

\* An exit status of zero, a non-zero one, or none
ExitCodes ==
    {0, 1, NoCode}

\* `${code}` in the template literal
CodeText(code) ==
    CASE code = 0 -> "0"
      [] code = 1 -> "1"
      [] OTHER    -> "null"

\* The subprocess ends at the OS level (signal, crash, its own exit).  The
\* code it ends with reaches the program only as the 'close' event's argument.
ProcExit(p) ==
    /\ Alive(p)
    /\ procState' = [procState EXCEPT ![p] = "exited"]
    /\ UNCHANGED <<publishVars, initVars>>
    /\ lastEvent' = "-"
    /\ UNCHANGED wipeVars
    /\ UNCHANGED runsLeft
    /\ UNCHANGED <<isKremsLocallyRunning, localKremsProcess, procSignalled, procOwner,
                   startedWhile, nStarts, nModals, openModal, browseDisabled, stopDisabled,
                   cleansInFlight, cleanLog, unloaded, liveAtUnload, unhandledRejection,
                   settings, binaryPresent, platform, binaryCheck, procPort, procNotice>>

\* Listeners that forget the handle but leave the flag set
ClearPreviewHandleOnly(p) ==
    /\ localKremsProcess' = Null
    /\ SetButtons(procOwner[p], FALSE)
    /\ UNCHANGED isKremsLocallyRunning

\* What both listeners do to the plugin: flag false, handle null, buttons of
\* the modal that registered them.
ClearPreview(p) ==
    /\ isKremsLocallyRunning' = FALSE
    /\ localKremsProcess' = Null
    /\ SetButtons(procOwner[p], FALSE)

\* A 'close' listener that reports every exit as a normal one
exitNoticeTypeStatus(code) ==
    "status"

\* `code === 0 ? 'status' : 'error'`
exitNoticeType(code) ==
    IF code = 0 THEN "status" ELSE "error"

\* localKremsProcess.on('close', ...) of process p is delivered with the
\* code the process ended with.
ProcClose(p) ==
    /\ procState[p] = "exited"
    /\ procState' = [procState EXCEPT ![p] = "closed"]
    /\ \E code \in ExitCodes :
        procNotice' = Shows(p, Notice(exitNoticeType(code),
                                      <<"Krems server exited with code ", CodeText(code), ".">>))
    /\ ClearPreview(p)
    /\ UNCHANGED <<publishVars, initVars>>
    /\ lastEvent' = "-"
    /\ UNCHANGED wipeVars
    /\ UNCHANGED runsLeft
    /\ UNCHANGED <<procSignalled, procOwner, startedWhile, nStarts, nModals, openModal,
                   cleansInFlight, cleanLog, unloaded, liveAtUnload, unhandledRejection,
                   settings, binaryPresent, platform, binaryCheck, procPort>>

\* localKremsProcess.on('error', ...) of process p is delivered (launch failed).
ProcError(p) ==
    /\ procState[p] = "spawnFailed"
    /\ procState' = [procState EXCEPT ![p] = "errored"]
    /\ procNotice' = Shows(p, Notice("error", <<"Failed to start Krems: ">>))
    /\ ClearPreview(p)
    /\ UNCHANGED <<publishVars, initVars>>
    /\ lastEvent' = "-"
    /\ UNCHANGED wipeVars
    /\ UNCHANGED runsLeft
    /\ UNCHANGED <<procSignalled, procOwner, startedWhile, nStarts, nModals, openModal,
                   cleansInFlight, cleanLog, unloaded, liveAtUnload, unhandledRejection,
                   settings, binaryPresent, platform, binaryCheck, procPort>>

\* ---------------------------------------------------- preview: stop, unload
\* ChildProcess.kill(): a signal to a live process; nothing for a dead one.
Kill(p) ==
    [procSignalled EXCEPT ![p] = procSignalled[p] \/ Alive(p)]

\* A stop handler that clears the flag and the handle itself after kill()
StopKillPartEager(m) ==
    IF localKremsProcess # Null
    THEN /\ procSignalled' = Kill(localKremsProcess)
         /\ isKremsLocallyRunning' = FALSE
         /\ localKremsProcess' = Null
         /\ SetButtons(m, FALSE)
    ELSE /\ isKremsLocallyRunning' = FALSE
         /\ SetButtons(m, FALSE)
         /\ UNCHANGED <<localKremsProcess, procSignalled>>

\* A stop handler whose else branch sets the flag instead of clearing it
StopKillPartSetsFlag(m) ==
    IF localKremsProcess # Null
    THEN /\ procSignalled' = Kill(localKremsProcess)
         /\ UNCHANGED <<isKremsLocallyRunning, localKremsProcess, browseDisabled,
                        stopDisabled>>
    ELSE /\ isKremsLocallyRunning' = TRUE
         /\ SetButtons(m, TRUE)
         /\ UNCHANGED <<localKremsProcess, procSignalled>>

\* The stop handler's first statement: kill the tracked process and leave the
\* state to the 'close' listener, or, with no handle, resynchronise the flag.
StopKillPart(m) ==
    IF localKremsProcess # Null
    THEN /\ procSignalled' = Kill(localKremsProcess)
         /\ UNCHANGED <<isKremsLocallyRunning, localKremsProcess, browseDisabled,
                        stopDisabled>>
    ELSE /\ isKremsLocallyRunning' = FALSE
         /\ SetButtons(m, FALSE)
         /\ UNCHANGED <<localKremsProcess, procSignalled>>

\* The stop handler's second statement, in the same turn (no await before
\* it): start `"<binary>" --clean` when the binary path and the directory are set.
StopCleanPart ==
    IF settings.localKremsBinaryPath # "" /\ settings.localMarkdownPath # ""
    THEN /\ cleansInFlight' = cleansInFlight + 1
         /\ cleanLog' = cleanLog \cup
               {[tracked |-> localKremsProcess,
                 trackedAlive |-> localKremsProcess # Null /\ Alive(localKremsProcess),
                 running |-> isKremsLocallyRunning',
                 anyAlive |-> \E p \in Procs : Alive(p)]}
    ELSE UNCHANGED <<cleansInFlight, cleanLog>>

\* Click on Stop Local Server of the modal on screen, up to its await.
StopClick(m) ==
    /\ openModal = m
    /\ ~stopDisabled[m]
    /\ cleansInFlight < MaxCleans
    /\ StopKillPart(m)
    /\ StopCleanPart
    /\ UNCHANGED <<publishVars, initVars>>
    /\ lastEvent' = "stopClick"
    /\ UNCHANGED wipeVars
    /\ UNCHANGED runsLeft
    /\ UNCHANGED <<procState, procOwner, startedWhile, nStarts, nModals, openModal,
                   unloaded, liveAtUnload, unhandledRejection, settings, binaryPresent,
                   platform, binaryCheck, procPort, procNotice>>

\* The --clean command settles; success and failure both only set feedback.
CleanDone ==
    /\ cleansInFlight > 0
    /\ cleansInFlight' = cleansInFlight - 1
    /\ UNCHANGED <<publishVars, initVars>>
    /\ lastEvent' = "-"
    /\ UNCHANGED wipeVars
    /\ UNCHANGED runsLeft
    /\ UNCHANGED <<isKremsLocallyRunning, localKremsProcess, procState, procSignalled,
                   procOwner, startedWhile, nStarts, nModals, openModal, browseDisabled,
                   stopDisabled, cleanLog, unloaded, liveAtUnload, unhandledRejection,
                   settings, binaryPresent, platform, binaryCheck, procPort, procNotice>>

\* onunload: kill the tracked process, if any, and clear handle and flag.
\* Handlers in flight and registered listeners are not cancelled.
onunload ==
    /\ ~unloaded
    /\ unloaded' = TRUE
    /\ liveAtUnload' = {p \in Procs : Alive(p)}
    /\ openModal' = Null
    /\ IF localKremsProcess # Null
       THEN /\ procSignalled' = Kill(localKremsProcess)
            /\ localKremsProcess' = Null
            /\ isKremsLocallyRunning' = FALSE
       ELSE UNCHANGED <<procSignalled, localKremsProcess, isKremsLocallyRunning>>
    /\ UNCHANGED <<publishVars, initVars>>
    /\ lastEvent' = "-"
    /\ UNCHANGED wipeVars
    /\ UNCHANGED runsLeft
    /\ UNCHANGED <<procState, procOwner, startedWhile, nStarts, nModals, browseDisabled,
                   stopDisabled, cleansInFlight, cleanLog, unhandledRejection, settings,
                   binaryPresent, platform, binaryCheck, procPort, procNotice>>

\* ------------------------------------------------ clean and clone: paths
\* A path is a sequence of segments and a segment a sequence of characters,
\* so that the text of a path can be compared character by character.
Dot ==
    <<".">>

DotDot ==
    <<".", ".">>

\* adapter.getBasePath(): the vault's directory, /h/v
vaultBasePath ==
    <<<<"h">>, <<"v">>>>

\* localMarkdownPath as typed into the settings tab: unset, a folder of the
\* vault, the vault itself, a nested folder, and two folders beside the
\* vault, of which one has a name that begins with the vault's name.
WipePaths ==
    {<<>>,
     <<<<"s">>>>,
     <<Dot>>,
     <<<<"a">>, <<"s">>>>,
     <<DotDot, <<"o">>>>,
     <<DotDot, <<"v", "b">>>>}

\* path.normalize on segments: '.' is dropped, '..' removes the segment before it
RECURSIVE pathNormalize(_, _)
pathNormalize(done, rest) ==
    IF rest = <<>> THEN done
    ELSE LET seg == Head(rest) IN
         IF seg = Dot THEN pathNormalize(done, Tail(rest))
         ELSE IF seg = DotDot
              THEN pathNormalize(IF done = <<>> THEN <<>>
                                 ELSE SubSeq(done, 1, Len(done) - 1), Tail(rest))
              ELSE pathNormalize(Append(done, seg), Tail(rest))

\* path.join(vaultBasePath, localMarkdownPath)
pathJoin(base, rel) ==
    pathNormalize(<<>>, base \o rel)

\* The string an absolute path is: '/' before every segment
RECURSIVE pathText(_)
pathText(path) ==
    IF path = <<>> THEN <<>>
    ELSE <<"/">> \o Head(path) \o pathText(Tail(path))

\* String.prototype.startsWith
textStartsWith(text, prefix) ==
    Len(text) >= Len(prefix) /\ SubSeq(text, 1, Len(prefix)) = prefix

\* `if (!absoluteLocalPath.startsWith(vaultBasePath)) throw ...`
PassesSecurityCheck(absoluteLocalPath) ==
    textStartsWith(pathText(absoluteLocalPath), pathText(vaultBasePath))

\* path.dirname(localMarkdownPath) is neither '' nor '.'
HasParentDir(localMarkdownPath) ==
    Len(localMarkdownPath) > 1

\* --------------------------------------------- clean and clone: commands
\* `rm -rf "<abs>"`, or `rd /s /q "<abs>"` on Windows
DeleteCommand(plat, absoluteLocalPath) ==
    [kind |-> "delete",
     tool |-> IF plat = "win32" THEN "rd /s /q" ELSE "rm -rf",
     url |-> <<>>,
     path |-> absoluteLocalPath,
     settled |-> FALSE]

\* https://github.com/user/repo becomes git://github.com/user/repo.git; any
\* other URL is used as it is.
cloneUrl(githubRepoUrl) ==
    IF startsWith(githubRepoUrl, HTTPS) /\ Len(githubRepoUrl) = 2
    THEN <<"git://", githubRepoUrl[2], ".git">>
    ELSE githubRepoUrl

\* `git clone --depth 1 ${cloneUrl} "${absoluteLocalPath}"`
CloneCommand(githubRepoUrl, absoluteLocalPath) ==
    [kind |-> "clone",
     tool |-> "git clone --depth 1",
     url |-> cloneUrl(githubRepoUrl),
     path |-> absoluteLocalPath,
     settled |-> FALSE]

\* The run's pending command has settled
Settle(run) ==
    [run EXCEPT ![Len(run)].settled = TRUE]

\* ---------------------------------------------- clean and clone: handler
WipeUrls ==
    Urls \cup {<<HTTPS, "github.com/u/r", ".git">>}

MissingWipeConfig(cfg) ==
    cfg.localMarkdownPath = <<>> \/ cfg.githubRepoUrl = <<>>

WipeInitial ==
    /\ wipeCfg = [localMarkdownPath |-> <<>>, githubRepoUrl |-> <<>>]
    /\ wipeDisabled = TRUE
    /\ wipePc = "idle"
    /\ wipeConfirmed = FALSE
    /\ wipeFound = "-"
    /\ wipeRun = <<>>
    /\ wipeResult = "-"

\* A handler that goes on whatever confirm() answered
ProceedsAnyway(userConfirmation) ==
    TRUE

\* `if (!userConfirmation) { ...cancelled...; return; }`
Proceeds(userConfirmation) ==
    userConfirmation

\* The handler ends: `finally { this.cleanCloneButton.disabled = false; }`,
\* which is also what the delete command's catch does before it returns.
WipeEnd(result) ==
    /\ wipePc' = "idle"
    /\ wipeDisabled' = FALSE
    /\ wipeResult' = result

\* Steps 2 and 3 up to the next await: with a parent directory to look for,
\* `await adapter.exists(parentDir)`; without, the clone command is started.
WipeGoOn(run) ==
    IF HasParentDir(wipeCfg.localMarkdownPath)
    THEN /\ wipePc' = "parent"
         /\ wipeRun' = run
         /\ UNCHANGED <<wipeDisabled, wipeResult>>
    ELSE /\ wipePc' = "cloning"
         /\ wipeRun' = Append(run, CloneCommand(wipeCfg.githubRepoUrl,
                                   pathJoin(vaultBasePath, wipeCfg.localMarkdownPath)))
         /\ UNCHANGED <<wipeDisabled, wipeResult>>

\* Click on Clean and Clone Directory, up to the first await: validation,
\* confirm(), `disabled = true`, `await adapter.exists(localMarkdownPath)`.
CleanCloneClick ==
    /\ ~wipeDisabled
    /\ wipePc = "idle"
    /\ lastEvent' = "cleanCloneClick"
    /\ wipeRun' = <<>>
    /\ wipeFound' = "-"
    /\ IF MissingWipeConfig(wipeCfg)
       THEN /\ wipeResult' = "invalid"
            /\ wipeConfirmed' = FALSE
            /\ UNCHANGED <<wipePc, wipeDisabled>>
       ELSE \E userConfirmation \in BOOLEAN :
            /\ wipeConfirmed' = userConfirmation
            /\ IF Proceeds(userConfirmation)
               THEN /\ wipePc' = "exists"
                    /\ wipeDisabled' = TRUE
                    /\ wipeResult' = "-"
               ELSE /\ wipeResult' = "cancelled"
                    /\ UNCHANGED <<wipePc, wipeDisabled>>
    /\ UNCHANGED <<previewVars, publishVars, initVars, modalVars, settings, runsLeft,
                   wipeCfg>>

\* `await adapter.exists(localMarkdownPath)` settles.  What the adapter makes
\* of a vault-relative path is Obsidian's: it may find the directory, not
\* find it, or throw.  Found: the security check, then the delete command.
WipeExistsDone ==
    /\ wipePc = "exists"
    /\ lastEvent' = "-"
    /\ \E answer \in {"found", "missing", "threw"} :
        LET absoluteLocalPath == pathJoin(vaultBasePath, wipeCfg.localMarkdownPath) IN
        /\ wipeFound' = answer
        /\ CASE answer = "threw" ->
                  /\ WipeEnd("failed")
                  /\ UNCHANGED wipeRun
             [] answer = "missing" -> WipeGoOn(wipeRun)
             [] OTHER ->
                  IF ~PassesSecurityCheck(absoluteLocalPath)
                  THEN /\ WipeEnd("refused")
                       /\ UNCHANGED wipeRun
                  ELSE /\ wipePc' = "deleting"
                       /\ wipeRun' = Append(wipeRun, DeleteCommand(platform, absoluteLocalPath))
                       /\ UNCHANGED <<wipeDisabled, wipeResult>>
    /\ UNCHANGED <<previewVars, publishVars, initVars, modalVars, settings, runsLeft,
                   wipeCfg, wipeConfirmed>>

\* The delete command settles: on failure feedback, the button re-enabled
\* and `return`; on success steps 2 and 3.
WipeDeleteDone ==
    /\ wipePc = "deleting"
    /\ lastEvent' = "-"
    /\ \E r \in {ExecOk(<<>>, <<>>), ExecFailed("exit", <<>>, <<"rm: cannot remove">>)} :
        IF execRejects(r)
        THEN /\ WipeEnd("deleteFailed")
             /\ wipeRun' = Settle(wipeRun)
        ELSE WipeGoOn(Settle(wipeRun))
    /\ UNCHANGED <<previewVars, publishVars, initVars, modalVars, settings, runsLeft,
                   wipeCfg, wipeConfirmed, wipeFound>>

\* `await adapter.exists(parentDir)` and `await adapter.mkdir(parentDir)`
\* settle: the clone command is started, or the outer catch reports.
WipeParentDone ==
    /\ wipePc = "parent"
    /\ lastEvent' = "-"
    /\ \E ok \in BOOLEAN :
        IF ok
        THEN /\ wipePc' = "cloning"
             /\ wipeRun' = Append(wipeRun, CloneCommand(wipeCfg.githubRepoUrl,
                                      pathJoin(vaultBasePath, wipeCfg.localMarkdownPath)))
             /\ UNCHANGED <<wipeDisabled, wipeResult>>
        ELSE /\ WipeEnd("failed")
             /\ UNCHANGED wipeRun
    /\ UNCHANGED <<previewVars, publishVars, initVars, modalVars, settings, runsLeft,
                   wipeCfg, wipeConfirmed, wipeFound>>

\* The clone command settles: success or the outer catch, then finally.
WipeCloneDone ==
    /\ wipePc = "cloning"
    /\ lastEvent' = "-"
    /\ \E r \in {ExecOk(<<>>, <<"Cloning into">>), ExecFailed("exit", <<>>, <<"fatal:">>)} :
        /\ WipeEnd(IF execRejects(r) THEN "failed" ELSE "cloned")
        /\ wipeRun' = Settle(wipeRun)
    /\ UNCHANGED <<previewVars, publishVars, initVars, modalVars, settings, runsLeft,
                   wipeCfg, wipeConfirmed, wipeFound>>

InitPreview ==
    /\ runsLeft = MaxOps
    /\ PreviewInitial
    /\ PublishInitial
    /\ InitInitial
    /\ ModalInitial
    /\ WipeInitial
    /\ targetDir = ClonedFolder
    /\ binaryPresent \in BOOLEAN
    /\ platform \in Platforms
    /\ settings \in {[DEFAULT_KREMS_SETTINGS EXCEPT !.localMarkdownPath = d,
                                                  !.localKremsBinaryPath = b] :
                       d \in {"", "MySite"}, b \in {"", binaryPathOf(platform)}}

NextPreview ==
    \/ OpenModal
    \/ CloseModal
    \/ \E m \in Modals : BrowseClick(m)
    \/ \E p \in Procs : SaveSettingsDone(p)
    \/ \E p \in Procs : BinaryCheckDone(p)
    \/ \E p \in Procs : BinaryDirReady(p)
    \/ \E p \in Procs : DownloadDone(p)
    \/ \E p \in Procs : ProcExit(p)
    \/ \E p \in Procs : ProcClose(p)
    \/ \E p \in Procs : ProcError(p)
    \/ \E m \in Modals : StopClick(m)
    \/ CleanDone
    \/ onunload

SpecPreview ==
    InitPreview /\ [][NextPreview]_vars

InitPublish ==
    /\ runsLeft = MaxOps
    /\ PreviewInitial
    /\ PublishInitial
    /\ InitInitial
    /\ ModalInitial
    /\ WipeInitial
    /\ targetDir = ClonedFolder
    /\ binaryPresent = FALSE
    /\ platform = "linux"
    /\ settings \in {[DEFAULT_KREMS_SETTINGS EXCEPT !.githubRepoUrl = u,
                                                    !.localMarkdownPath = d,
                                                    !.gitPassword = t] :
                       u \in Urls, d \in Paths, t \in Tokens}

\* OpenModal and CloseModal are the modal's; the rest is the publish section.
NextPublish ==
    \/ OpenModal
    \/ CloseModal
    \/ ChangeRepoUrl
    \/ ChangeLocalPath
    \/ ChangeToken
    \/ \E m \in Modals : PushClick(m)
    \/ \E m \in Modals : PushAddDone(m)
    \/ \E m \in Modals : PushCommitDone(m)
    \/ \E m \in Modals : PushRevParseDone(m)
    \/ \E m \in Modals : PushPushDone(m)

SpecPublish ==
    InitPublish /\ [][NextPublish]_vars

InitInitialize ==
    /\ runsLeft = MaxOps
    /\ PreviewInitial
    /\ PublishInitial
    /\ InitInitial
    /\ ModalInitial
    /\ WipeInitial
    /\ binaryPresent = FALSE
    /\ platform = "linux"
    /\ targetDir \in InitialDirStates
    /\ settings \in {[DEFAULT_KREMS_SETTINGS EXCEPT !.githubRepoUrl = u,
                                                    !.localMarkdownPath = d] :
                       u \in Urls, d \in Paths}

NextInitialize ==
    \/ OpenModal
    \/ CloseModal
    \/ ChangeRepoUrl
    \/ ChangeLocalPath
    \/ \E m \in Modals : InitOpenCheckDone(m)
    \/ \E m \in Modals : InitClick(m)
    \/ \E i \in Inits : InitExistsDone(i)
    \/ \E i \in Inits : InitIsEmptyDone(i)
    \/ \E i \in Inits : InitCloneDone(i)
    \/ \E i \in Inits : InitSetUrlDone(i)
    \/ \E i \in Inits : InitReadmeDone(i)
    \/ \E i \in Inits : InitRemoveDone(i)

SpecInitialize ==
    InitInitialize /\ [][NextInitialize]_vars

\* Initialize and Publish together
InitRepository ==
    /\ runsLeft = MaxMixedOps
    /\ PreviewInitial
    /\ PublishInitial
    /\ InitInitial
    /\ ModalInitial
    /\ WipeInitial
    /\ binaryPresent = FALSE
    /\ platform = "linux"
    /\ targetDir \in {Absent, ClonedFolder}
    /\ settings \in {[DEFAULT_KREMS_SETTINGS EXCEPT !.githubRepoUrl = u,
                                                    !.localMarkdownPath = d,
                                                    !.gitPassword = t] :
                       u \in Urls, d \in Paths, t \in Tokens}

NextRepository ==
    \/ OpenModal
    \/ CloseModal
    \/ ChangeRepoUrl
    \/ ChangeLocalPath
    \/ ChangeToken
    \/ \E m \in Modals : InitOpenCheckDone(m)
    \/ \E m \in Modals : InitClick(m)
    \/ \E i \in Inits : InitExistsDone(i)
    \/ \E i \in Inits : InitIsEmptyDone(i)
    \/ \E i \in Inits : InitCloneDone(i)
    \/ \E i \in Inits : InitSetUrlDone(i)
    \/ \E i \in Inits : InitReadmeDone(i)
    \/ \E i \in Inits : InitRemoveDone(i)
    \/ \E m \in Modals : PushClick(m)
    \/ \E m \in Modals : PushAddDone(m)
    \/ \E m \in Modals : PushCommitDone(m)
    \/ \E m \in Modals : PushRevParseDone(m)
    \/ \E m \in Modals : PushPushDone(m)

SpecRepository ==
    InitRepository /\ [][NextRepository]_vars

InitCleanClone ==
    /\ runsLeft = MaxOps
    /\ PreviewInitial
    /\ PublishInitial
    /\ InitInitial
    /\ ModalInitial
    /\ targetDir = Absent
    /\ binaryPresent = FALSE
    /\ platform \in {"win32", "linux"}
    /\ settings = DEFAULT_KREMS_SETTINGS
    /\ wipeCfg \in [localMarkdownPath : WipePaths, githubRepoUrl : WipeUrls]
    /\ wipeDisabled = MissingWipeConfig(wipeCfg)
    /\ wipePc = "idle"
    /\ wipeConfirmed = FALSE
    /\ wipeFound = "-"
    /\ wipeRun = <<>>
    /\ wipeResult = "-"

NextCleanClone ==
    \/ CleanCloneClick
    \/ WipeExistsDone
    \/ WipeDeleteDone
    \/ WipeParentDone
    \/ WipeCloneDone

SpecCleanClone ==
    InitCleanClone /\ [][NextCleanClone]_vars

\* ------------------------------------------- direct-clone variant: handler
\* The variant of the action modal whose first button is Clone Your Repo.  It
\* uses the modal, the settings and the Initialize state of the model above;
\* its onOpen starts no directory check.
OpenModalDirect ==
    /\ ~unloaded
    /\ openModal = Null
    /\ nModals < MaxModals
    /\ nModals' = nModals + 1
    /\ openModal' = nModals + 1
    /\ SetButtons(nModals + 1, isKremsLocallyRunning)
    /\ pushDisabled' = [pushDisabled EXCEPT ![nModals + 1] = MissingConfig(settings)]
    /\ UNCHANGED <<pushPc, pushCfg, pushBranch, pushRun, pushErrs, pushCommit, pushResult,
                   nPublishes, execLog, consoleLog, feedbackLog>>
    /\ initDisabled' = [initDisabled EXCEPT ![nModals + 1] = MissingConfig(settings)]
    /\ UNCHANGED <<initOpenCheck, initPc, initOwner, initCfg, initRun, cloneInto, initResult,
                   initFeedback, nInits, targetDir, readmePresent>>
    /\ lastEvent' = "-"
    /\ UNCHANGED wipeVars
    /\ UNCHANGED runsLeft
    /\ UNCHANGED <<isKremsLocallyRunning, localKremsProcess, procState, procSignalled,
                   procOwner, startedWhile, nStarts, cleansInFlight, cleanLog, unloaded,
                   liveAtUnload, unhandledRejection, settings, binaryPresent, platform,
                   binaryCheck, procPort, procNotice>>

\* What `git clone <url> <path>` can report for a target in state dir: it
\* refuses an existing path that is not an empty folder, and may fail for
\* other reasons (network, authentication) whatever the target is.
DirectCloneResults(dir) ==
    {ExecFailed("exit", <<>>, <<"fatal: unable to access the repository">>)}
    \cup (IF GitCloneCanSucceed(dir)
          THEN {ExecOk(<<>>, <<"Cloning into...">>)}
          ELSE {ExecFailed("exit", <<>>,
                           <<"fatal: destination path ",
                             "already exists and is not an empty directory", ".">>)})

\* `errorMsg.includes('already exists and is not an empty directory')` picks
\* the plug-in's own wording, otherwise git's message is shown
cloneErrorMsg(rejection) ==
    IF Includes(IF rejection.stderr # <<>> THEN rejection.stderr ELSE rejection.message,
                "already exists and is not an empty directory")
    THEN "Cloning failed: Directory already exists and is not empty."
    ELSE "Cloning failed: git's message"

\* Click on Clone Your Repo of the modal on screen: validation, then the
\* button is disabled and `git clone` is handed to exec in the same turn.
DirectCloneClick(m) ==
    /\ openModal = m
    /\ ~initDisabled[m]
    /\ MissingConfig(settings) \/ runsLeft > 0
    /\ lastEvent' = "cloneClick"
    /\ UNCHANGED wipeVars
    /\ UNCHANGED <<previewVars, publishVars, modalVars, settings, initOpenCheck,
                   initResult, targetDir, readmePresent>>
    /\ IF MissingConfig(settings)
       THEN /\ initFeedback' = {ShowInit(m, "error", "Error: Local Markdown Directory and GitHub Repo URL must be set in plugin settings.")}
            /\ UNCHANGED <<initPc, initOwner, initCfg, nInits, runsLeft, initDisabled,
                           initRun, cloneInto>>
       ELSE /\ nInits' = nInits + 1
            /\ runsLeft' = runsLeft - 1
            /\ initPc' = [initPc EXCEPT ![nInits + 1] = "clone"]
            /\ initOwner' = [initOwner EXCEPT ![nInits + 1] = m]
            /\ initCfg' = [initCfg EXCEPT ![nInits + 1] = InitConfig(settings)]
            /\ initDisabled' = [initDisabled EXCEPT ![m] = TRUE]
            /\ initFeedback' = {ShowInit(m, "status", "Cloning your repository from ...")}
            /\ initRun' = [initRun EXCEPT ![nInits + 1] = Append(@, "clone")]
            /\ cloneInto' = [cloneInto EXCEPT ![nInits + 1] = targetDir]

\* `git clone` settles: success feedback, or the catch block; then finally
DirectCloneDone(i) ==
    /\ initPc[i] = "clone"
    /\ lastEvent' = "-"
    /\ UNCHANGED wipeVars
    /\ UNCHANGED runsLeft
    /\ \E r \in DirectCloneResults(targetDir) :
        IF execRejects(r)
        THEN /\ initFeedback' =
                   {[modal |-> Null, type |-> "console.error", text |-> "Cloning error:"],
                    ShowInit(initOwner[i], "error",
                             cloneErrorMsg(execRejection(<<"git clone">>, <<"git clone <your-repo-url> <path>">>, r)))}
             /\ EndRun(i, "failed")
             /\ UNCHANGED targetDir
        ELSE /\ initFeedback' = {ShowInit(initOwner[i], "success", "Repository cloned successfully!")}
             /\ EndRun(i, "success")
             /\ targetDir' = ClonedFolder
    /\ initDisabled' = [initDisabled EXCEPT ![initOwner[i]] = FALSE]
    /\ UNCHANGED <<previewVars, publishVars, modalVars, settings, initOpenCheck,
                   initRun, nInits, readmePresent>>

InitDirectClone ==
    /\ runsLeft = MaxOps
    /\ PreviewInitial
    /\ PublishInitial
    /\ InitInitial
    /\ ModalInitial
    /\ WipeInitial
    /\ binaryPresent = FALSE
    /\ platform = "linux"
    /\ targetDir \in InitialDirStates
    /\ settings \in {[DEFAULT_KREMS_SETTINGS EXCEPT !.githubRepoUrl = u,
                                                    !.localMarkdownPath = d] :
                       u \in Urls, d \in Paths}

NextDirectClone ==
    \/ OpenModalDirect
    \/ CloseModal
    \/ ChangeRepoUrl
    \/ ChangeLocalPath
    \/ \E m \in Modals : DirectCloneClick(m)
    \/ \E i \in Inits : DirectCloneDone(i)

SpecDirectClone ==
    InitDirectClone /\ [][NextDirectClone]_vars

\* ---------------------------------------------- repository work beside a preview
\* A preview was started from a first action modal, opened while the
\* repository URL was still unset (so its Initialize and Push buttons are
\* disabled), and the modal was closed; the URL has been entered since.  The
\* subprocess runs in the local directory, which therefore exists.
InitRetry ==
    /\ runsLeft = MaxOps
    /\ isKremsLocallyRunning = TRUE
    /\ localKremsProcess = 1
    /\ procState = [p \in Procs |-> IF p = 1 THEN "alive" ELSE "none"]
    /\ procSignalled = [p \in Procs |-> FALSE]
    /\ procOwner = [p \in Procs |-> IF p = 1 THEN 1 ELSE Null]
    /\ startedWhile = [p \in Procs |-> IF p = 1 THEN "Stopped" ELSE "-"]
    /\ nStarts = 1
    /\ browseDisabled = [m \in Modals |-> m = 1]
    /\ stopDisabled = [m \in Modals |-> FALSE]
    /\ cleansInFlight = 0
    /\ cleanLog = {}
    /\ unloaded = FALSE
    /\ liveAtUnload = {}
    /\ unhandledRejection = FALSE
    /\ binaryPresent = TRUE
    /\ platform = "linux"
    /\ binaryCheck = [p \in Procs |-> IF p = 1 THEN "found" ELSE "-"]
    /\ procPort = [p \in Procs |-> IF p = 1 THEN "8080" ELSE "-"]
    /\ procNotice = [p \in Procs |->
                       IF p = 1
                       THEN Notice("log", <<"Krems server starting on port ", "8080", ". Output:\n">>)
                       ELSE NoNotice]
    /\ pushDisabled = [m \in Modals |-> m = 1]
    /\ pushPc = [m \in Modals |-> "idle"]
    /\ pushCfg = [m \in Modals |-> DEFAULT_KREMS_SETTINGS]
    /\ pushBranch = [m \in Modals |-> <<"main">>]
    /\ pushRun = [m \in Modals |-> <<>>]
    /\ pushErrs = [m \in Modals |-> {}]
    /\ pushCommit = [m \in Modals |-> "-"]
    /\ pushResult = [m \in Modals |-> "none"]
    /\ nPublishes = 0
    /\ execLog = {}
    /\ consoleLog = {}
    /\ feedbackLog = {}
    /\ initDisabled = [m \in Modals |-> m = 1]
    /\ initOpenCheck = [m \in Modals |-> FALSE]
    /\ initPc = [i \in Inits |-> "none"]
    /\ initOwner = [i \in Inits |-> Null]
    /\ initCfg = [i \in Inits |-> InitConfig(DEFAULT_KREMS_SETTINGS)]
    /\ initRun = [i \in Inits |-> <<>>]
    /\ cloneInto = [i \in Inits |-> Unseen]
    /\ initResult = [i \in Inits |-> "none"]
    /\ initFeedback = {}
    /\ nInits = 0
    /\ readmePresent = FALSE
    /\ nModals = 1
    /\ openModal = Null
    /\ lastEvent = "-"
    /\ WipeInitial
    /\ targetDir \in {Folder(0, 0), Folder(1, 0), ClonedFolder}
    /\ settings \in {[DEFAULT_KREMS_SETTINGS EXCEPT
                         !.githubRepoUrl = <<HTTPS, "github.com/u/r">>,
                         !.localMarkdownPath = "MySite",
                         !.gitPassword = t,
                         !.localKremsBinaryPath = binaryPathOf("linux")] :
                       t \in Tokens}

NextRetry ==
    \/ OpenModal
    \/ CloseModal
    \/ ChangeLocalPath
    \/ \E m \in Modals : InitOpenCheckDone(m)
    \/ \E m \in Modals : InitClick(m)
    \/ \E i \in Inits : InitExistsDone(i)
    \/ \E i \in Inits : InitIsEmptyDone(i)
    \/ \E i \in Inits : InitCloneDone(i)
    \/ \E i \in Inits : InitSetUrlDone(i)
    \/ \E i \in Inits : InitReadmeDone(i)
    \/ \E i \in Inits : InitRemoveDone(i)
    \/ \E m \in Modals : PushClick(m)
    \/ \E m \in Modals : PushAddDone(m)
    \/ \E m \in Modals : PushCommitDone(m)
    \/ \E m \in Modals : PushRevParseDone(m)
    \/ \E m \in Modals : PushPushDone(m)
    \/ \E p \in Procs : ProcExit(p)
    \/ \E p \in Procs : ProcClose(p)

SpecRetry ==
    InitRetry /\ [][NextRetry]_vars

InitPort ==
    /\ runsLeft = MaxOps
    /\ PreviewInitial
    /\ PublishInitial
    /\ InitInitial
    /\ ModalInitial
    /\ WipeInitial
    /\ targetDir = ClonedFolder
    /\ binaryPresent = TRUE
    /\ platform = "linux"
    /\ settings \in {[DEFAULT_KREMS_SETTINGS EXCEPT !.localMarkdownPath = "MySite",
                                                  !.localRunPort = port] : port \in Ports}

SpecPort ==
    InitPort /\ [][NextPreview]_vars

\* ================================================================ properties

\* C1: in every reachable state at most one preview subprocess spawned by the
\* plug-in is alive, and a Browse Locally request made while an earlier one is
\* still provisioning the binary (Starting) or while a preview is Running
\* spawns nothing, whichever modal the request comes from.
C1_AtMostOnePreviewAlive ==
    /\ Cardinality({p \in Procs : Alive(p)}) <= 1
    /\ \A p \in Procs : startedWhile[p] \in {"Starting", "Running"} => ~Spawned(p)

\* C2: a start request made while the preview is Running (flag set, handle on
\* a live subprocess) is rejected: it spawns no subprocess and the handle is
\* never replaced by a subprocess of that request.
C2_StartWhileRunningRejected ==
    \A p \in Procs :
        startedWhile[p] = "Running" => (procState[p] \in {"none", "noSpawn"} /\ localKremsProcess # p)

\* C3: once onunload has run, every preview subprocess that was alive at that
\* moment has been sent a termination signal.
C3_UnloadKillsEveryLivePreview ==
    unloaded => \A p \in liveAtUnload : procSignalled[p]

\* C4: the token occurs in no text written to the console, in no feedback
\* message and in no persisted setting other than the token setting; of the
\* command lines handed to exec only the push command contains it.
C4_TokenOnlyInPushCommand ==
    /\ \A t \in consoleLog : ~Includes(t, "ghp_SECRET")
    /\ \A f \in feedbackLog : ~Includes(f.text, "ghp_SECRET")
    /\ \A c \in execLog : Includes(c, "ghp_SECRET") => c[1] = "git push "
    /\ ~Includes(settings.githubRepoUrl, "ghp_SECRET")

\* C5: a commit that fails with "nothing to commit" in its output does not end
\* the publish run: the push step is started in the same turn (the branch
\* query first when the push is authenticated), and the run ends in success
\* exactly when the push command succeeds.  Any other commit failure ends the
\* run with an error, the commit being the last command invoked.
C5_NothingToCommitIsNotFatal ==
    \A m \in Modals :
        LET last == pushRun[m][Len(pushRun[m])] IN
        /\ pushCommit[m] = "nothingToCommit" =>
              /\ last \in {"revparse", "push"}
              /\ pushPc[m] = "idle" =>
                    /\ last = "push"
                    /\ pushResult[m] = IF "push" \in pushErrs[m] THEN "error" ELSE "success"
        /\ pushCommit[m] = "failed" =>
              /\ last = "commit"
              /\ pushPc[m] = "idle"
              /\ pushResult[m] = "error"

\* A run whose commit found nothing to commit has ended in success.
C5_Witness ==
    \E m \in Modals :
        /\ pushCommit[m] = "nothingToCommit"
        /\ pushPc[m] = "idle"
        /\ pushResult[m] = "success"
        /\ "commit" \in pushErrs[m]

\* C6: the commands of a publish run are invoked in the order add, commit,
\* (branch query,) push; a failed add is the last command of its run, a commit
\* that failed otherwise than with "nothing to commit" is followed by no push,
\* a failed push is the last command, and each of these runs ends in an error.
C6_PipelineOrderAndAbort ==
    \A m \in Modals :
        /\ pushRun[m] \in {<<>>, <<"add">>, <<"add", "commit">>,
                           <<"add", "commit", "push">>,
                           <<"add", "commit", "revparse">>,
                           <<"add", "commit", "revparse", "push">>}
        /\ "add" \in pushErrs[m] =>
              pushRun[m] = <<"add">> /\ pushPc[m] = "idle" /\ pushResult[m] = "error"
        /\ pushCommit[m] = "failed" =>
              pushRun[m] = <<"add", "commit">> /\ pushPc[m] = "idle" /\ pushResult[m] = "error"
        /\ "push" \in pushErrs[m] =>
              pushPc[m] = "idle" /\ pushResult[m] = "error"
        /\ pushResult[m] = "success" =>
              /\ pushRun[m] \in {<<"add", "commit", "push">>,
                                 <<"add", "commit", "revparse", "push">>}
              /\ pushErrs[m] \subseteq {"commit", "revparse"}

\* One run was aborted by its failing add, another ran all its steps.
C6_Witness ==
    \E m1, m2 \in Modals :
        /\ "add" \in pushErrs[m1]
        /\ pushRun[m1] = <<"add">>
        /\ pushResult[m1] = "error"
        /\ pushRun[m2] = <<"add", "commit", "push">>
        /\ pushResult[m2] = "success"

\* C7: a click on Initialize Directory or on Push to GitHub while the
\* repository URL or the local directory is empty shows the validation error
\* in the clicked modal, hands no command to exec and starts no run: nothing
\* but the feedback of that section changes.
C7_MissingConfigIsRejected ==
    [][(/\ lastEvent' \in {"initClick", "pushClick"}
        /\ (settings.githubRepoUrl = <<>> \/ settings.localMarkdownPath = ""))
       =>
       /\ UNCHANGED <<previewVars, modalVars, settings, runsLeft>>
       /\ UNCHANGED <<pushDisabled, pushPc, pushCfg, pushBranch, pushRun, pushErrs,
                      pushCommit, pushResult, nPublishes>>
       /\ UNCHANGED <<initDisabled, initOpenCheck, initPc, initOwner, initCfg, initRun,
                      cloneInto, initResult, nInits, targetDir, readmePresent>>
       /\ lastEvent' = "pushClick" =>
             /\ execLog' = {}
             /\ consoleLog' = {}
             /\ feedbackLog' = {[modal |-> openModal, type |-> "error",
                                 text |-> <<"Error: Local Markdown Directory and GitHub Repo URL must be set in plugin settings.">>]}
             /\ UNCHANGED initFeedback
       /\ lastEvent' = "initClick" =>
             /\ initFeedback' = {[modal |-> openModal, type |-> "error",
                                  text |-> "Error: Local Markdown Directory and GitHub Repo URL must be set in plugin settings."]}
             /\ UNCHANGED <<execLog, consoleLog, feedbackLog>>
      ]_vars

\* With the configuration incomplete, both sections of the open modal show
\* the validation error after their buttons were clicked.
C7_Witness ==
    /\ settings.githubRepoUrl = <<>> \/ settings.localMarkdownPath = ""
    /\ lastEvent \in {"initClick", "pushClick"}
    /\ openModal # Null
    /\ \E f \in feedbackLog :
          /\ f.modal = openModal
          /\ f.type = "error"
          /\ f.text = <<"Error: Local Markdown Directory and GitHub Repo URL must be set in plugin settings.">>
    /\ \E f \in initFeedback :
          /\ f.modal = openModal
          /\ f.type = "error"
          /\ f.text = "Error: Local Markdown Directory and GitHub Repo URL must be set in plugin settings."

C10_CleanOnlyAfterExit ==
    \A e \in cleanLog : e.tracked = Null /\ ~e.running /\ ~e.trackedAlive

\* C11: a click on Stop Local Server while no subprocess is tracked sends no
\* signal to any process, lets no exception escape, leaves the handle null
\* and the flag false, and changes no process.
C11_StopWhenStoppedIsNoOp ==
    [][(lastEvent' = "stopClick" /\ localKremsProcess = Null) =>
          /\ procSignalled' = procSignalled
          /\ procState' = procState
          /\ localKremsProcess' = Null
          /\ ~isKremsLocallyRunning'
          /\ unhandledRejection' = unhandledRejection
      ]_vars

\* Stop was clicked with no subprocess tracked (the button of a modal that
\* was opened while a preview was running and never told of its exit).
C11_Witness ==
    /\ lastEvent = "stopClick"
    /\ localKremsProcess = Null
    /\ ~isKremsLocallyRunning
    /\ \E p \in Procs : procState[p] = "closed"

\* C12, as stated: no download request is made while the target binary file
\* exists (so that after one successful provision, with the file left in
\* place, no further download happens).
C12_AsStated ==
    [][\A p \in Procs :
          (procState[p] = "downloading" /\ procState'[p] = "requesting") => ~binaryPresent
      ]_vars

\* C12, amended: an invocation of ensureKremsBinary whose existence check
\* reported the binary present requests no download; a download is requested
\* only after the check reported the file absent or the check itself failed.
C12_NoDownloadAfterCheckFound ==
    [][\A p \in Procs :
          (procState[p] = "downloading" /\ procState'[p] = "requesting")
              => binaryCheck[p] \in {"missing", "threw"}
      ]_vars

\* One request downloaded the binary and is running; a later one found the
\* file in place and started its process without entering the download block.
C12_Witness ==
    \E p, q \in Procs :
        /\ p < q
        /\ binaryCheck[p] = "missing" /\ Spawned(p)
        /\ binaryCheck[q] = "found" /\ Spawned(q)
        /\ binaryPresent

\* C13: on a platform other than win32, darwin and linux a start request
\* fails in the turn of its click with the 'Unsupported operating system'
\* error: no path is returned (nothing is spawned), the handler never reaches
\* the existence check or the download, no file is written and the persisted
\* settings are not modified.
C13_UnsupportedPlatformFailsAtOnce ==
    [][platform \notin {"win32", "darwin", "linux"} =>
          /\ \A p \in Procs : procState'[p] \in {"none", "noSpawn"}
          /\ \A p \in Procs :
                (procState[p] = "none" /\ procState'[p] = "noSpawn") =>
                    /\ lastEvent' = "browseClick"
                    /\ procNotice'[p].type = "error"
                    /\ procNotice'[p].text =
                          <<"Unsupported operating system for Krems download.">>
          /\ settings' = settings
          /\ binaryPresent' = binaryPresent
          /\ localKremsProcess' = Null
      ]_vars

\* A start request was made on an unsupported platform and has failed.
C13_Witness ==
    /\ platform = "freebsd"
    /\ lastEvent = "browseClick"
    /\ \E p \in Procs : procState[p] = "noSpawn" /\ procNotice[p].type = "error"
    /\ settings.localKremsBinaryPath = ""

\* C14: when the 'close' notification of a preview subprocess is delivered,
\* whatever ended the process, the running flag is cleared and the handle is
\* set to null in that turn, and the exit is reported as a normal notice when
\* the exit code is zero and as an error notice otherwise.
C14_CloseClearsAndClassifies ==
    [][\A p \in Procs :
          (procState[p] = "exited" /\ procState'[p] = "closed") =>
              /\ ~isKremsLocallyRunning'
              /\ localKremsProcess' = Null
              /\ procNotice'[p].text[1] = "Krems server exited with code "
              /\ procNotice'[p].type = "status" <=> procNotice'[p].text[2] = "0"
              /\ procNotice'[p].type = "error" <=> procNotice'[p].text[2] # "0"
      ]_vars

\* A subprocess that was stopped by the user and one that ended by itself
\* with code zero have both been reported.
C14_Witness ==
    \E p, q \in Procs :
        /\ procState[p] = "closed" /\ procSignalled[p]
        /\ procNotice[p].type = "error"
        /\ procState[q] = "closed" /\ ~procSignalled[q]
        /\ procNotice[q] = Notice("status", <<"Krems server exited with code ", "0", ".">>)
        /\ ~isKremsLocallyRunning
        /\ localKremsProcess = Null

\* C15: every failure of a component operation during a handler is caught
\* in that handler and turned into a status message: no handler's promise is
\* rejected with nobody catching it, and a start request that ended without
\* a subprocess has shown an error.
C15_EveryFailureIsReported ==
    /\ ~unhandledRejection
    /\ \A p \in Procs : procState[p] = "noSpawn" => procNotice[p].type = "error"

\* C16: in the Clean and Clone variant a recursive delete command is issued
\* only for an absolute path inside the vault's directory: the directory
\* itself or one below it.
C16_DeleteOnlyInsideVault ==
    \A i \in 1..Len(wipeRun) :
        wipeRun[i].kind = "delete" =>
            /\ Len(wipeRun[i].path) >= Len(vaultBasePath)
            /\ SubSeq(wipeRun[i].path, 1, Len(vaultBasePath)) = vaultBasePath

\* C17: in the Clean and Clone variant no command is issued unless confirm()
\* answered yes at that click; the clone is a `--depth 1` clone, it is the
\* last command of the run, every command before it has completed, and when
\* the directory was found the delete command precedes it.
C17_ConfirmThenDeleteThenClone ==
    /\ wipeRun # <<>> => wipeConfirmed
    /\ wipePc # "idle" => wipeConfirmed
    /\ \A i \in 1..Len(wipeRun) :
          /\ wipeRun[i].kind = "delete" => i = 1
          /\ wipeRun[i].kind = "clone" =>
                /\ wipeRun[i].tool = "git clone --depth 1"
                /\ i = Len(wipeRun)
                /\ \A j \in 1..(i - 1) : wipeRun[j].settled
                /\ wipeFound = "found" => (i = 2 /\ wipeRun[1].kind = "delete")
                /\ wipeFound = "missing" => i = 1

\* A confirmed run found the directory, deleted it and has cloned.
C17_Witness ==
    /\ wipeConfirmed
    /\ wipeFound = "found"
    /\ Len(wipeRun) = 2
    /\ wipeRun[1].kind = "delete" /\ wipeRun[1].settled
    /\ wipeRun[2].kind = "clone"
    /\ wipeResult = "cloned"

\* C18: the port passed to the preview binary is 8080 whenever the configured
\* port is blank or invalid (not a number, or outside 1024-65535), and is the
\* configured port only when that is valid.
C18_InvalidPortFallsBackTo8080 ==
    \A p \in Procs :
        Spawned(p) =>
            procPort[p] = IF PortIsValid(settings.localRunPort)
                          THEN settings.localRunPort
                          ELSE "8080"

\* C19: whenever control is back at the event loop, isKremsLocallyRunning is
\* true exactly when localKremsProcess is non-null, whatever the sequence of
\* start requests, stop requests, 'error' and 'close' notifications and unload.
C19_FlagIffHandle ==
    isKremsLocallyRunning <=> localKremsProcess # Null

\* The flag and the handle have been set by a spawn, cleared by a 'close'
\* notification, set again and cleared by onunload.
C19_Witness ==
    /\ unloaded
    /\ ~isKremsLocallyRunning
    /\ localKremsProcess = Null
    /\ procState[1] = "closed"
    /\ procState[2] \in {"alive", "exited"}

\* C20: a start request that leaves Starting does so in one of two ways: its
\* spawn succeeds and the controller is Running, or it fails (the provisioner
\* returns no path, spawn throws, or the subprocess emits 'error') and the
\* controller is back at Stopped: handle null, flag false, and the Browse
\* Locally button of the request's modal enabled again.  A provisioner that
\* does not return (its settings save rejects) is outside the claim.
C20_StartEndsRunningOrStopped ==
    [][\A p \in Procs :
          /\ (procState[p] \in HandlerStates /\ procState'[p] = "alive")
                => ControllerState' = "Running"
          /\ (\/ /\ procState[p] \in {"none", "checking", "downloading", "requesting"}
                 /\ procState'[p] = "noSpawn"
              \/ /\ procState[p] = "spawnFailed"
                 /\ procState'[p] = "errored")
                => /\ localKremsProcess' = Null
                   /\ ~isKremsLocallyRunning'
                   /\ ~browseDisabled'[procOwner'[p]]
      ]_vars

\* C21: when a publish run starts its push command, the command is
\* `git push https://<token>@<rest of the URL> <current branch>`, preceded by
\* the branch query, exactly when the run read a token and a repository URL
\* that starts with https://; in every other case it is plain `git push` and
\* the run has made no branch query.
C21_AuthenticatedPushIffTokenAndHttps ==
    [][\A m \in Modals :
          (pushPc[m] # "push" /\ pushPc'[m] = "push") =>
              LET cfg == pushCfg[m] IN
              IF cfg.gitPassword # "" /\ Len(cfg.githubRepoUrl) > 0
                    /\ cfg.githubRepoUrl[1] = "https://"
              THEN /\ execLog' = {<<"git push ", "https://", cfg.gitPassword, "@">>
                                    \o Tail(cfg.githubRepoUrl) \o <<" ">> \o pushBranch'[m]}
                   /\ pushRun'[m] = <<"add", "commit", "revparse", "push">>
              ELSE /\ execLog' = {<<"git push">>}
                   /\ pushRun'[m] = <<"add", "commit", "push">>
      ]_vars

\* Two runs are awaiting their push commands: one read a token and an https
\* URL and queried the branch, the other read a token and an SSH URL and did not.
C21_Witness ==
    \E m1, m2 \in Modals :
        /\ pushPc[m1] = "push" /\ pushPc[m2] = "push"
        /\ pushCfg[m1].gitPassword # "" /\ pushCfg[m1].githubRepoUrl[1] = "https://"
        /\ pushRun[m1] = <<"add", "commit", "revparse", "push">>
        /\ pushCfg[m2].gitPassword # "" /\ pushCfg[m2].githubRepoUrl[1] = "git@"
        /\ pushRun[m2] = <<"add", "commit", "push">>

\* C22: in an authenticated publish, when `git rev-parse --abbrev-ref HEAD`
\* fails, the same turn warns on the console and in the feedback area, leaves
\* the branch at 'main', and starts `git push <authenticated url> main`; the
\* run is not ended.
C22_BranchQueryFailureDefaultsToMain ==
    [][\A m \in Modals :
          (pushPc[m] = "revparse" /\ "revparse" \notin pushErrs[m]
             /\ "revparse" \in pushErrs'[m]) =>
              /\ pushPc'[m] = "push"
              /\ pushDisabled'[m]
              /\ pushResult'[m] = pushResult[m]
              /\ pushBranch'[m] = <<"main">>
              /\ execLog' = {<<"git push ", "https://", pushCfg[m].gitPassword, "@">>
                               \o Tail(pushCfg[m].githubRepoUrl) \o <<" ", "main">>}
              /\ \E line \in consoleLog' :
                    line[1] = "Could not determine current branch, defaulting to 'main'. Error: "
              /\ \E f \in feedbackLog' :
                    /\ f.modal = m
                    /\ f.text[1] = "Warning: Could not determine current branch (using 'main'). Details: "
      ]_vars

\* A run whose branch query failed is awaiting its push of 'main'.
C22_Witness ==
    \E m \in Modals :
        /\ pushPc[m] = "push"
        /\ "revparse" \in pushErrs[m]
        /\ pushRun[m] = <<"add", "commit", "revparse", "push">>
        /\ pushBranch[m] = <<"main">>

\* C23: an Initialize run goes clone -> remote set-url -> look for README.md
\* -> remove it if present, each step started only in the turn in which the
\* previous one succeeded; a run that ends during one of these steps without
\* success has started no later step and shows 'Initialization failed'; and
\* success is shown only by a run that cloned and set the remote, at the turn
\* in which README.md was found absent or was removed.
C23_InitStepsInOrder ==
    [][\A i \in Inits :
          initPc'[i] # initPc[i] =>
            /\ initPc'[i] = "clone" => (initPc[i] \in {"exists", "isEmpty"} /\ initRun'[i] = <<"clone">>)
            /\ initPc'[i] = "setUrl" =>
                  /\ initPc[i] = "clone"
                  /\ targetDir' = ClonedFolder
                  /\ initRun'[i] = <<"clone", "set-url">>
            /\ initPc'[i] = "readme" => (initPc[i] = "setUrl" /\ initRun'[i] = <<"clone", "set-url">>)
            /\ initPc'[i] = "remove" => (initPc[i] = "readme" /\ readmePresent)
            /\ (initPc[i] \in {"clone", "setUrl", "readme", "remove"} /\ initPc'[i] = "done") =>
                  /\ initRun'[i] = initRun[i]
                  /\ initResult'[i] \in {"success", "failed"}
                  /\ initResult'[i] = "failed" =>
                        \E f \in initFeedback' :
                            f.type = "error" /\ f.text = "Initialization failed"
            /\ initResult'[i] = "success" =>
                  /\ initPc[i] \in {"readme", "remove"}
                  /\ initRun[i] = <<"clone", "set-url">>
                  /\ ~readmePresent'
                  /\ \E f \in initFeedback' : f.type = "success"
      ]_vars

\* One run went through all steps and removed README.md; another run failed
\* at its clone and started nothing after it.
C23_Witness ==
    \E i, j \in Inits :
        /\ initResult[i] = "success"
        /\ initRun[i] = <<"clone", "set-url">>
        /\ targetDir = ClonedFolder
        /\ initResult[j] = "failed"
        /\ initRun[j] = <<"clone">>

\* C24: in the direct-clone variant, a click on Clone Your Repo while the
\* target directory is a non-empty folder ends in the 'directory not empty'
\* error without any git clone command having been handed to the shell.
C24_NonEmptyTargetRefusedWithoutClone ==
    [][(lastEvent' = "cloneClick" /\ nInits' = nInits + 1 /\ NonEmptyFolder(targetDir)) =>
          /\ initRun'[nInits'] = <<>>
          /\ \E f \in initFeedback' : f.type = "error"
      ]_vars

C26_AtMostOneInitialization ==
    [][\A i, j \in Inits :
          (i # j /\ initPc[i] # "clone" /\ initPc'[i] = "clone") =>
              initPc'[j] \notin {"exists", "isEmpty", "clone"}
      ]_vars

\* C27: at most one publish run is between its `git add` and the completion
\* of its push at any time: no two modals' handlers are awaiting a git command
\* of their own runs, on the same local directory, at once.
C27_AtMostOnePublish ==
    \A m1, m2 \in Modals :
        (m1 # m2 /\ pushPc[m1] # "idle" /\ pushPc[m2] # "idle") =>
            pushCfg[m1].localMarkdownPath # pushCfg[m2].localMarkdownPath

\* C28: after onunload has run, no turn spawns a preview subprocess and no
\* turn sets the running flag: a Browse Locally handler that was still
\* provisioning the binary at the unload ends without either.
C28_NoSpawnAfterUnload ==
    [][unloaded =>
          /\ \A p \in Procs :
                procState'[p] \in {"alive", "spawnFailed"} =>
                    procState[p] \in {"alive", "spawnFailed"}
          /\ isKremsLocallyRunning' => isKremsLocallyRunning
      ]_vars

\* C29: while the handle refers to a subprocess that is alive, the delivery
\* of the 'error' or 'close' notification of another subprocess (one spawned
\* earlier) leaves the handle on the tracked subprocess and the flag true.
C29_StaleNotificationKeepsHandle ==
    [][\A p, q \in Procs :
          (/\ p # q
           /\ localKremsProcess = p /\ Alive(p)
           /\ procState[q] \in {"exited", "spawnFailed"}
           /\ procState'[q] \in {"closed", "errored"}) =>
              /\ localKremsProcess' = p
              /\ isKremsLocallyRunning' = isKremsLocallyRunning
      ]_vars

\* C30: the binary path is written into the settings only by a turn after
\* which the binary file exists at that path (it was found or downloaded).
C30_PathRecordedOnlyForExistingBinary ==
    [][(settings.localKremsBinaryPath = "" /\ settings'.localKremsBinaryPath # "") =>
          binaryPresent'
      ]_vars

====
